---- MODULE Spec2Model ----
(***************************************************************************)
(* Transaction lifecycle and financial integrity of plasticos.transaction. *)
(*                                                                         *)
(* The repository holds two implementations of the model:                  *)
(*   "addons"    src/addons/plasticos_transaction/models/transaction.py    *)
(*   "Plasticos" src/Plasticos/plasticos_transaction/models/transaction.py *)
(* The variable impl says which one is installed; it never changes.        *)
(* Field names follow the addons file; the Plasticos file calls            *)
(* commission_locked / commission_locked_amount / load_id                  *)
(* commission_frozen / commission_frozen_amount / linda_load_id.           *)
(*                                                                         *)
(* Money is an integer; a commission percentage is kept in tenths          *)
(* (percentage 0.1 is 1), so gross_margin * percentage is                  *)
(* (gross_margin * tenths) \div 10.                                        *)
(***************************************************************************)
EXTENDS Integers, Sequences, FiniteSets, TLC

\* ------------------------------------------------------------------ bounds
MaxTx == 2          \* transactions ever created
MaxInvoice == 2     \* customer invoices (account.move, out_invoice)
MaxBill == 2        \* vendor / freight bills (account.move, in_invoice)
MaxOps == 3         \* operations in one history
MaxSess == 2        \* concurrent sessions
MaxSale == 1        \* sale orders
MaxSteps == 3       \* steps of a workflow
MaxRuns == 2        \* calls of DAGRunner.run on one workflow

PctDen == 10

TxIds == 1..MaxTx
Invoices == 1..MaxInvoice
Bills == (MaxInvoice + 1)..(MaxInvoice + MaxBill)
MoveIds == Invoices \cup Bills
Amounts == {600, 1200}
Percentages == {1, 2}
Impls == {"addons", "Plasticos"}
Sessions == 1..MaxSess
SaleIds == 1..MaxSale

VARIABLES
    impl,          \* which transaction.py is installed
    tx,            \* plasticos_transaction table: id -> row
    move,          \* account_move table: id -> [amount_total, state]
    percentage,    \* plasticos.commission.rule(1).percentage, in tenths
    rule_active,   \* plasticos.document.rule for plasticos.transaction is active
    docs,          \* plasticos_document: the document of the rule's tag of each transaction
    load_state,    \* plasticos.load(1).state
    load_bol,      \* its bol_pickup_attached and bol_delivery_attached
    ops,           \* operations performed so far
    result,        \* the last operation: [op, ids, keys of vals, manager, err]
    sess,          \* concurrent database sessions, one request each
    seq,           \* ir.sequence "plasticos.transaction": the next number
    sale,          \* sale_order table: id -> [name, state, transaction_id]
    replay,        \* position of the replay test in its two builds
    gmp,           \* GMPState of a run of the GMP graph, with the node to run next
    dag            \* DAGRunner: its steps and the position of run() in them

vars == <<impl, tx, move, percentage, rule_active, docs, load_state, load_bol, ops, result,
          sess,
          seq, sale, replay, gmp, dag>>

\* ------------------------------------------------------------- field values
NewRec ==
    [name |-> "New",
     state |-> "draft",
     sale_order_id |-> 0,
     customer_invoice_id |-> 0,
     vendor_bill_ids |-> {},
     freight_bill_ids |-> {},
     load_id |-> 0,
     commission_rule_id |-> 0,
     commission_override_flat |-> 0,
     commission_locked |-> FALSE,
     commission_locked_amount |-> 0,
     revenue_total |-> 0,
     cost_total |-> 0,
     gross_margin |-> 0,
     net_margin |-> 0,
     commission_amount |-> 0,
     compliance_status |-> ""]

\* A vals dictionary: keys is the set of fields present, the other fields
\* carry their values (meaningful only for the keys present).
NoVals ==
    [keys |-> {},
     name |-> "New",
     state |-> "draft",
     sale_order_id |-> 0,
     customer_invoice_id |-> 0,
     vendor_bill_ids |-> <<>>,
     freight_bill_ids |-> <<>>,
     load_id |-> 0,
     commission_rule_id |-> 0,
     commission_override_flat |-> 0,
     commission_locked |-> FALSE,
     commission_locked_amount |-> 0]

Val1(k, v) == [NoVals EXCEPT !.keys = {k}, ![k] = v]
Val2(k1, v1, k2, v2) == [NoVals EXCEPT !.keys = {k1, k2}, ![k1] = v1, ![k2] = v2]
Val3(k1, v1, k2, v2, k3, v3) ==
    [NoVals EXCEPT !.keys = {k1, k2, k3}, ![k1] = v1, ![k2] = v2, ![k3] = v3]

\* x2many commands (4, id), (3, id), (6, 0, ids)
Link(b) == [op |-> 4, id |-> b, ids |-> {}]
Forget(b) == [op |-> 3, id |-> b, ids |-> {}]
Replace(S) == [op |-> 6, id |-> 0, ids |-> S]

RECURSIVE ApplyCmds(_, _)
ApplyCmds(cur, cmds) ==
    IF cmds = <<>> THEN cur
    ELSE LET c == Head(cmds)
             nxt == CASE c.op = 4 -> cur \cup {c.id}
                      [] c.op = 3 -> cur \ {c.id}
                      [] c.op = 6 -> c.ids
                      [] OTHER -> cur
         IN ApplyCmds(nxt, Tail(cmds))

RECURSIVE SumAmounts(_, _)
SumAmounts(S, mv) ==
    IF S = {} THEN 0
    ELSE LET m == CHOOSE x \in S : TRUE
         IN mv[m].amount_total + SumAmounts(S \ {m}, mv)

Times(amount, pct) == (amount * pct) \div PctDen

\* ------------------------------------------------- commission and financials
\* plasticos.commission.service.compute_commission
compute_commission(rec, pct) ==
    IF rec.commission_rule_id # 0 THEN Times(rec.gross_margin, pct) ELSE 0

\* addons _compute_financials: net_margin is revenue - cost
compute_financials_addons(rec, mv) ==
    LET revenue == IF rec.customer_invoice_id # 0
                   THEN mv[rec.customer_invoice_id].amount_total ELSE 0
        vendor_cost == SumAmounts(rec.vendor_bill_ids, mv)
        freight_cost == SumAmounts(rec.freight_bill_ids, mv)
        cost == vendor_cost + freight_cost
    IN [rec EXCEPT !.revenue_total = revenue,
                   !.cost_total = cost,
                   !.gross_margin = revenue - cost,
                   !.net_margin = revenue - cost]

\* _compute_commission without the commission_locked branch
compute_commission_unlocked(rec, pct) ==
    [rec EXCEPT !.commission_amount = compute_commission(rec, pct)]

\* addons _compute_commission
compute_commission_addons(rec, pct) ==
    IF rec.commission_locked
    THEN [rec EXCEPT !.commission_amount = rec.commission_locked_amount]
    ELSE [rec EXCEPT !.commission_amount = compute_commission(rec, pct)]

\* A Float field reads 0.0 when it was never written, so the Plasticos test
\* "commission_override_flat is not False and ... is not None" is always true.
OverrideIsSet(rec) == rec.commission_override_flat \in Int

\* Plasticos _compute_financials: commission and net margin in the same method
compute_financials_Plasticos(rec, mv, pct) ==
    LET revenue == IF rec.customer_invoice_id # 0
                   THEN mv[rec.customer_invoice_id].amount_total ELSE 0
        vendor_cost == SumAmounts(rec.vendor_bill_ids, mv)
        freight_cost == SumAmounts(rec.freight_bill_ids, mv)
        cost == vendor_cost + freight_cost
        gross == revenue - cost
        commission == IF rec.commission_locked THEN rec.commission_locked_amount
                      ELSE IF OverrideIsSet(rec) THEN rec.commission_override_flat
                      ELSE IF rec.commission_rule_id # 0 THEN Times(gross, pct)
                      ELSE 0
    IN [rec EXCEPT !.revenue_total = revenue,
                   !.cost_total = cost,
                   !.gross_margin = gross,
                   !.commission_amount = commission,
                   !.net_margin = gross - commission]

\* Fields whose write marks commission_amount for recomputation
\* (@api.depends of addons _compute_commission, gross_margin apart).
CommissionDepends ==
    {"commission_rule_id", "state", "commission_locked", "commission_locked_amount"}

\* a flush that recomputes no stored field
NoRecompute(im, old, new, dirty, mv, pct) == new

\* Recomputation of the stored computed fields after a change: old is the
\* table before, new the table after, dirty the rows on which a field of
\* CommissionDepends was written.  Rows absent from old were just created.
Recompute(im, old, new, dirty, mv, pct) ==
    [t \in DOMAIN new |->
        IF im = "Plasticos" THEN compute_financials_Plasticos(new[t], mv, pct)
        ELSE LET r == compute_financials_addons(new[t], mv)
                 stale == \/ t \in dirty
                          \/ t \notin DOMAIN old
                          \/ r.gross_margin # old[t].gross_margin
             IN IF stale THEN compute_commission_addons(r, pct) ELSE r]

\* ------------------------------------------------------ database constraints
\* Plasticos _sql_constraints: unique(customer_invoice_id)
unique_customer_invoice_link(txs) ==
    \A a, b \in DOMAIN txs :
        (a # b /\ txs[a].customer_invoice_id # 0)
            => txs[a].customer_invoice_id # txs[b].customer_invoice_id

\* Plasticos _sql_constraints: CHECK(state != 'closed' OR gross_margin >= 0)
non_negative_margin_on_close(txs) ==
    \A a \in DOMAIN txs : txs[a].state # "closed" \/ txs[a].gross_margin >= 0

\* Plasticos init(): unique indexes on account_move_id of both relation tables
plasticos_bill_unique(txs) ==
    \A a, b \in DOMAIN txs :
        a # b => /\ txs[a].vendor_bill_ids \cap txs[b].vendor_bill_ids = {}
                 /\ txs[a].freight_bill_ids \cap txs[b].freight_bill_ids = {}

\* Plasticos _sql_constraints: unique(name)
unique_transaction_name(txs) ==
    \A a, b \in DOMAIN txs : a # b => txs[a].name # txs[b].name

\* The addons file declares no constraint and no index.
DbAccepts(im, txs) ==
    im = "Plasticos" =>
        /\ unique_transaction_name(txs)
        /\ unique_customer_invoice_link(txs)
        /\ non_negative_margin_on_close(txs)
        /\ plasticos_bill_unique(txs)

IntegrityError == "IntegrityError"

\* Flush of a changed table: recompute, then let the database judge.
Flush(im, old, new, dirty, mv, pct) ==
    LET done == Recompute(im, old, new, dirty, mv, pct)
    IN IF DbAccepts(im, done) THEN [err |-> "", tx |-> done]
       ELSE [err |-> IntegrityError, tx |-> old]

\* ------------------------------------------------------- compliance service
\* plasticos.compliance.service.get_missing_documents for plasticos.transaction:
\* one rule, whose tag code is "DOC"
\* The document of tag "DOC" attached to a transaction, as uploaded
NewDoc == [verified |-> FALSE, override |-> FALSE, override_reason |-> ""]

UnverifiedDocs == [t \in TxIds |-> NewDoc]

\* a compliance service that misses no document
no_missing_documents(active, documents, id) == {}

get_missing_documents(active, documents, id) ==
    IF active /\ ~(documents[id].verified \/ documents[id].override)
    THEN {"DOC"} ELSE {}

is_compliant(active, documents, id) ==
    Cardinality(get_missing_documents(active, documents, id)) = 0

\* ------------------------------------------------------------------- create
\* BaseModel.create / write of the values of vals on one row
ApplyVals(rec, vals) ==
    [rec EXCEPT
        !.name = IF "name" \in vals.keys THEN vals.name ELSE @,
        !.state = IF "state" \in vals.keys THEN vals.state ELSE @,
        !.sale_order_id = IF "sale_order_id" \in vals.keys THEN vals.sale_order_id ELSE @,
        !.customer_invoice_id =
            IF "customer_invoice_id" \in vals.keys THEN vals.customer_invoice_id ELSE @,
        !.vendor_bill_ids =
            IF "vendor_bill_ids" \in vals.keys THEN ApplyCmds(@, vals.vendor_bill_ids) ELSE @,
        !.freight_bill_ids =
            IF "freight_bill_ids" \in vals.keys THEN ApplyCmds(@, vals.freight_bill_ids) ELSE @,
        !.load_id = IF "load_id" \in vals.keys THEN vals.load_id ELSE @,
        !.commission_rule_id =
            IF "commission_rule_id" \in vals.keys THEN vals.commission_rule_id ELSE @,
        !.commission_override_flat =
            IF "commission_override_flat" \in vals.keys THEN vals.commission_override_flat ELSE @,
        !.commission_locked =
            IF "commission_locked" \in vals.keys THEN vals.commission_locked ELSE @,
        !.commission_locked_amount =
            IF "commission_locked_amount" \in vals.keys THEN vals.commission_locked_amount ELSE @]

NextId(txs) == Cardinality(DOMAIN txs) + 1

\* The addons model declares no commission_override_flat: super().write
\* refuses the unknown field, create() drops it.
InvalidField == "Invalid field commission_override_flat"

KnownVals(im, vals) ==
    IF im = "addons"
    THEN [vals EXCEPT !.keys = @ \ {"commission_override_flat"}]
    ELSE vals

\* ir.sequence.next_by_code("plasticos.transaction"), n being the next number
\* of the sequence (data/sequence.xml): a reference it never gave before
next_by_code(n) == "TX/" \o ToString(n)

\* create(): vals.get("name", "New") == "New"
NeedsReference(vals) == "name" \notin vals.keys \/ vals.name = "New"

\* _compute_compliance (addons only), stored, @api.depends("create_date"):
\* it runs for a row when the row is inserted and at no other time
compute_compliance(im, rec, id, active, documents) ==
    IF im = "addons"
    THEN [rec EXCEPT !.compliance_status =
              IF is_compliant(active, documents, id) THEN "compliant" ELSE "missing"]
    ELSE rec

\* create(): the reference comes from the sequence unless vals name one,
\* every value of vals goes to the row unchecked (write() is not involved).
\* active and documents are the document rule and the documents at the time
\* of the call.
create(im, txs, vals, mv, pct, n, active, documents) ==
    LET id == NextId(txs)
        named == IF NeedsReference(vals)
                 THEN [vals EXCEPT !.keys = @ \cup {"name"}, !.name = next_by_code(n)]
                 ELSE vals
        row == compute_compliance(im, ApplyVals(NewRec, KnownVals(im, named)), id,
                                  active, documents)
        new == [t \in DOMAIN txs \cup {id} |-> IF t = id THEN row ELSE txs[t]]
    IN Flush(im, txs, new, {id}, mv, pct)


\* -------------------------------------------------------------------- write
\* search([(field, "in", ids), ("id", "!=", id)]): another row holds one of ids
OtherHasVendor(txs, id, ids) ==
    \E o \in DOMAIN txs : o # id /\ txs[o].vendor_bill_ids \cap ids # {}

OtherHasFreight(txs, id, ids) ==
    \E o \in DOMAIN txs : o # id /\ txs[o].freight_bill_ids \cap ids # {}

\* addons write(): ids examined for a command list (commands 4 and 6 only)
CheckedIds(cmds) ==
    UNION {IF cmds[i].op = 4 THEN {cmds[i].id}
           ELSE IF cmds[i].op = 6 THEN cmds[i].ids
           ELSE {} : i \in 1..Len(cmds)}

ProtectedAddons ==
    {"sale_order_id", "purchase_order_ids", "customer_invoice_id",
     "vendor_bill_ids", "freight_bill_ids", "commission_rule_id"}

\* a write() that never sees a reassignment
NeverReassigned(rec, vals) == FALSE

\* addons write(): vals carry another customer invoice (or none) than the
\* one the record has
InvoiceReassigned(rec, vals) ==
    /\ rec.customer_invoice_id # 0
    /\ "customer_invoice_id" \in vals.keys
    /\ vals.customer_invoice_id # rec.customer_invoice_id

\* addons write(), body of "for rec in self": the error raised for row id, or ""
WriteCheckAddons(txs, id, vals) ==
    LET rec == txs[id]
        allow == \/ vals.state = "active"
                 \/ (vals.state = "closed" /\ "commission_locked" \in vals.keys
                        /\ vals.commission_locked = TRUE)
    IN IF "state" \in vals.keys /\ ~allow
            THEN "State can only be changed via action methods."
       ELSE IF "name" \in vals.keys
            THEN "Transaction reference cannot be modified."
       ELSE IF rec.state = "closed" /\ ProtectedAddons \cap vals.keys # {}
            THEN "Closed transactions are immutable."
       ELSE IF rec.commission_locked /\ "commission_rule_id" \in vals.keys
            THEN "Commission cannot be modified after lock."
       ELSE IF InvoiceReassigned(rec, vals)
            THEN "Customer invoice cannot be reassigned once set."
       ELSE IF /\ "vendor_bill_ids" \in vals.keys
               /\ OtherHasVendor(txs, id, CheckedIds(vals.vendor_bill_ids))
            THEN "Vendor bill already linked to another transaction."
       ELSE IF /\ "freight_bill_ids" \in vals.keys
               /\ OtherHasFreight(txs, id, CheckedIds(vals.freight_bill_ids))
            THEN "Freight bill already linked to another transaction."
       ELSE IF "commission_override_flat" \in vals.keys
            THEN InvalidField
       ELSE ""

\* Plasticos write(): browse() is handed the command list itself, so each
\* "bill.id" is a command tuple and the search matches every number in it.
BrowsedIds(cmds) ==
    UNION {{cmds[i].op, cmds[i].id} \cup cmds[i].ids : i \in 1..Len(cmds)}

ProtectedPlasticos ==
    ProtectedAddons \cup {"commission_override_flat"}

\* Plasticos write(), body of "for rec in self"
WriteCheckPlasticos(txs, id, vals) ==
    LET rec == txs[id]
    IN IF "state" \in vals.keys
            THEN "State can only be changed via action methods."
       ELSE IF "name" \in vals.keys
            THEN "Transaction reference cannot be modified."
       ELSE IF rec.state = "closed" /\ ProtectedPlasticos \cap vals.keys # {}
            THEN "Closed transactions are immutable."
       ELSE IF rec.commission_locked /\ "commission_override_flat" \in vals.keys
            THEN "Commission override cannot be modified after freeze."
       ELSE IF rec.customer_invoice_id # 0 /\ "customer_invoice_id" \in vals.keys
            THEN "Customer invoice cannot be reassigned once set."
       ELSE IF /\ "vendor_bill_ids" \in vals.keys
               /\ OtherHasVendor(txs, id, BrowsedIds(vals.vendor_bill_ids))
            THEN "Vendor bill already linked to another transaction."
       ELSE IF /\ "freight_bill_ids" \in vals.keys
               /\ OtherHasFreight(txs, id, BrowsedIds(vals.freight_bill_ids))
            THEN "Freight bill already linked to another transaction."
       ELSE ""

WriteCheck(im, txs, id, vals) ==
    IF im = "Plasticos" THEN WriteCheckPlasticos(txs, id, vals)
    ELSE WriteCheckAddons(txs, id, vals)

\* write() on the recordset ids: every row is checked against the table as
\* it is before the write, the first error (in id order) is raised, and
\* only then super().write(vals) changes all the rows.
write(im, txs, ids, vals, mv, pct) ==
    LET bad == {t \in ids : WriteCheck(im, txs, t, vals) # ""}
    IN IF bad # {}
       THEN LET first == CHOOSE t \in bad : \A u \in bad : t <= u
            IN [err |-> WriteCheck(im, txs, first, vals), tx |-> txs]
       ELSE LET new == [t \in DOMAIN txs |->
                            IF t \in ids THEN ApplyVals(txs[t], vals) ELSE txs[t]]
                dirty == IF CommissionDepends \cap vals.keys # {} THEN ids ELSE {}
            IN Flush(im, txs, new, dirty, mv, pct)


\* ------------------------------------------------------------ state machine
\* action_activate: "self.state = 'active'" is a write({'state': 'active'})
action_activate(im, txs, id, mv, pct) ==
    write(im, txs, {id}, Val1("state", "active"), mv, pct)

\* an action_close that freezes and closes without any check
action_close_unchecked(txs, id, manager, mv, pct, active, verified, lstate) ==
    write("addons", txs, {id},
          Val3("commission_locked_amount", compute_commission(txs[id], pct),
               "commission_locked", TRUE,
               "state", "closed"), mv, pct)

\* addons action_close, after the row lock is held
action_close_addons(txs, id, manager, mv, pct, active, verified, lstate) ==
    LET rec == txs[id]
        fail(msg) == [err |-> msg, tx |-> txs]
    IN IF rec.customer_invoice_id = 0 \/ mv[rec.customer_invoice_id].state # "posted"
            THEN fail("Customer invoice must be posted.")
       ELSE IF \E b \in rec.vendor_bill_ids : mv[b].state # "posted"
            THEN fail("Vendor bills must be posted.")
       ELSE IF rec.load_id # 0 /\ lstate # "closed"
            THEN fail("Logistics must be closed.")
       ELSE IF ~is_compliant(active, verified, id)
            THEN fail("Required documents missing.")
       ELSE IF ~manager
            THEN fail("Only Plasticos Managers can close transactions.")
       ELSE IF rec.gross_margin < 0
            THEN fail("Cannot close transaction with negative gross margin.")
       ELSE LET amount == compute_commission(rec, pct)
            IN write("addons", txs, {id},
                     Val3("commission_locked_amount", amount,
                          "commission_locked", TRUE,
                          "state", "closed"), mv, pct)

\* Plasticos action_close: plasticos.document has no
\* check_transaction_compliance, so the compliance gate is skipped; every
\* field assignment is a write() of its own, and an error undoes them all.
action_close_Plasticos(txs, id, mv, pct, lstate) ==
    LET rec == txs[id]
        fail(msg) == [err |-> msg, tx |-> txs]
    IN IF rec.customer_invoice_id = 0 \/ mv[rec.customer_invoice_id].state # "posted"
            THEN fail("Customer invoice must be posted.")
       ELSE IF \E b \in rec.vendor_bill_ids : mv[b].state # "posted"
            THEN fail("All vendor bills must be posted.")
       ELSE IF rec.load_id # 0 /\ lstate # "closed"
            THEN fail("Logistics must be closed.")
       ELSE IF rec.gross_margin < 0
            THEN fail("Cannot close transaction with negative gross margin.")
       ELSE LET w1 == write("Plasticos", txs, {id},
                            Val1("commission_locked", TRUE), mv, pct)
                w2 == write("Plasticos", w1.tx, {id},
                            Val1("commission_locked_amount",
                                 w1.tx[id].commission_amount), mv, pct)
                w3 == write("Plasticos", w2.tx, {id},
                            Val1("state", "closed"), mv, pct)
            IN IF w1.err # "" THEN fail(w1.err)
               ELSE IF w2.err # "" THEN fail(w2.err)
               ELSE IF w3.err # "" THEN fail(w3.err)
               ELSE w3

\* an action_close that takes every caller for a manager
action_close_as_manager(im, txs, id, manager, mv, pct, active, verified, lstate) ==
    IF im = "Plasticos" THEN action_close_Plasticos(txs, id, mv, pct, lstate)
    ELSE action_close_addons(txs, id, TRUE, mv, pct, active, verified, lstate)

action_close(im, txs, id, manager, mv, pct, active, verified, lstate) ==
    IF im = "Plasticos" THEN action_close_Plasticos(txs, id, mv, pct, lstate)
    ELSE action_close_addons(txs, id, manager, mv, pct, active, verified, lstate)

\* ------------------------------------------------------------- sale order
SaleName(s) == "S" \o ToString(s)

NewSale(s) == [name |-> SaleName(s), state |-> "draft", transaction_id |-> 0]

\* a confirmation that creates a transaction for every order it confirms
action_confirm_always_creates(im, txs, sales, s, mv, pct, n, active, documents) ==
    LET fail(msg) == [err |-> msg, tx |-> txs, sale |-> sales]
        confirmed == [sales EXCEPT ![s].state = "sale"]
        id == NextId(txs)
        c == create(im, txs, Val2("name", "TX-" \o sales[s].name, "sale_order_id", s),
                    mv, pct, n, active, documents)
        a == action_activate(im, c.tx, id, mv, pct)
    IN IF sales[s].state # "draft"
            THEN fail("Some orders are not in a state requiring confirmation.")
       ELSE IF c.err # "" THEN fail(c.err)
       ELSE IF a.err # "" THEN fail(a.err)
       ELSE [err |-> "", tx |-> a.tx,
             sale |-> [confirmed EXCEPT ![s].transaction_id = id]]

\* sale.order action_confirm: super() refuses an order that is neither draft
\* nor sent; an order without transaction gets one, named after the order,
\* which is activated.  An error undoes the whole request.
action_confirm(im, txs, sales, s, mv, pct, n, active, documents) ==
    LET fail(msg) == [err |-> msg, tx |-> txs, sale |-> sales]
        confirmed == [sales EXCEPT ![s].state = "sale"]
        id == NextId(txs)
        c == create(im, txs, Val2("name", "TX-" \o sales[s].name, "sale_order_id", s),
                    mv, pct, n, active, documents)
        a == action_activate(im, c.tx, id, mv, pct)
    IN IF sales[s].state # "draft"
            THEN fail("Some orders are not in a state requiring confirmation.")
       ELSE IF sales[s].transaction_id # 0
            THEN [err |-> "", tx |-> txs, sale |-> confirmed]
       ELSE IF c.err # "" THEN fail(c.err)
       ELSE IF a.err # "" THEN fail(a.err)
       ELSE [err |-> "", tx |-> a.tx,
             sale |-> [confirmed EXCEPT ![s].transaction_id = id]]


\* ----------------------------------------------------------- plasticos.load
\* a load whose two bills of lading are attached
BothAttached == [pickup |-> TRUE, delivery |-> TRUE]

\* PlasticosLoad.write: the checks on the fields named by vals (keys)
load_write_check(lstate, keys) ==
    IF /\ lstate \in {"rate_confirmed", "scheduled", "dispatched", "picked_up",
                      "delivered", "closed"}
       /\ keys \cap {"origin_zip", "destination_zip"} # {}
    THEN "Lane cannot be modified after rate confirmation."
    ELSE IF /\ lstate \in {"dispatched", "picked_up", "delivered", "closed"}
            /\ keys \ {"bol_pickup_attached", "bol_delivery_attached"} # {}
    THEN "Load locked after dispatch."
    ELSE ""

\* _transition(new_state): the new state goes through write(), with
\* entered_state_at and the timestamp of the state
transition(lstate, new_state) ==
    LET keys == {"state", "entered_state_at"}
                    \cup (IF new_state = "dispatched" THEN {"dispatched_at"} ELSE {})
                    \cup (IF new_state = "delivered" THEN {"delivered_at"} ELSE {})
        e == load_write_check(lstate, keys)
    IN IF e # "" THEN [err |-> e, state |-> lstate]
       ELSE [err |-> "", state |-> new_state]

\* an action that writes fields of the load and then calls _transition
write_then_transition(lstate, keys, new_state) ==
    LET e == load_write_check(lstate, keys)
    IN IF e # "" THEN [err |-> e, state |-> lstate] ELSE transition(lstate, new_state)

load_action_dispatch(lstate) ==
    IF lstate \notin {"scheduled", "rate_confirmed"}
    THEN [err |-> "Load must be scheduled and rate confirmed.", state |-> lstate]
    ELSE transition(lstate, "dispatched")

load_action_close(lstate, bol) ==
    IF ~bol.pickup \/ ~bol.delivery
    THEN [err |-> "BOL documents required.", state |-> lstate]
    ELSE transition(lstate, "closed")

\* ------------------------------------------------------------------- inputs
LinkCmds == {<<Link(b)>> : b \in Bills}
SetCmds == {<<Replace(S)>> : S \in {{}, Bills}}

LinkVals(cmdlists) ==
    {Val1("vendor_bill_ids", c) : c \in cmdlists}
        \cup {Val1("freight_bill_ids", c) : c \in cmdlists}

StateVals ==
    {Val1("state", s) : s \in {"draft", "active", "closed"}}
        \cup {Val2("state", "closed", "commission_locked", TRUE)}
        \cup {Val2("state", "active", "commission_rule_id", 1)}

OtherVals ==
    {Val1("customer_invoice_id", i) : i \in Invoices \cup {0}}
        \cup {Val1("commission_rule_id", r) : r \in {0, 1}}
        \cup {Val1("commission_override_flat", 50)}
        \cup {Val1("commission_locked", b) : b \in BOOLEAN}
        \cup {Val1("commission_locked_amount", 70)}
        \cup {Val1("load_id", 1)}
        \cup {Val1("name", n) : n \in {"TX-X", "New"}}

\* Command 6 is left out for the Plasticos write(): what its search does
\* with a list nested in the tuple is not determined by the source.
WriteInputs(im) ==
    StateVals \cup OtherVals \cup LinkVals(LinkCmds)
        \cup (IF im = "addons" THEN LinkVals(SetCmds) ELSE {})

\* A deal entered in one create(): invoice, one vendor or freight bill,
\* commission rule
DealVals ==
    {Val3("customer_invoice_id", i, slot, <<Link(b)>>, "commission_rule_id", 1) :
        i \in Invoices, b \in Bills, slot \in {"vendor_bill_ids", "freight_bill_ids"}}

CreateInputs ==
    {NoVals} \cup StateVals \cup OtherVals \cup LinkVals(LinkCmds \cup SetCmds)
        \cup DealVals

\* No replay test is running
NoReplay ==
    [run |-> 0, pc |-> "none", manager |-> FALSE, rule |-> 0, first |-> {},
     first_err |-> "", err |-> ""]

\* No GMP graph is running
NoGmp ==
    [node |-> "none", last |-> "none", steps |-> 0, retries |-> 0, retry_count |-> 0,
     max_retries |-> 0, todo_plan |-> FALSE, errors |-> FALSE,
     files_modified |-> FALSE, validation_passed |-> FALSE]

\* No workflow is loaded
NoDag == [pc |-> "none"]

\* A session that runs no request
IdleSess ==
    [kind |-> "none", id |-> 0, slot |-> "", bill |-> 0, manager |-> FALSE,
     pc |-> "done", snap |-> <<>>, err |-> ""]

\* ------------------------------------------------------------------ actions
Done(op, ids, keys, manager, r) ==
    /\ tx' = r.tx
    /\ result' = [op |-> op, ids |-> ids, keys |-> keys, manager |-> manager,
                  err |-> r.err]
    /\ ops' = ops + 1

Create ==
    /\ ops < MaxOps
    /\ NextId(tx) \in TxIds
    /\ \E vals \in CreateInputs :
          /\ Done("create", {NextId(tx)}, vals.keys, FALSE,
                  create(impl, tx, vals, move, percentage, seq, rule_active, docs))
          /\ seq' = IF NeedsReference(vals) THEN seq + 1 ELSE seq
    /\ UNCHANGED <<replay, sale, impl, gmp, dag, move, percentage, rule_active, docs, load_state, load_bol, sess>>

Write ==
    /\ ops < MaxOps
    /\ \E ids \in SUBSET DOMAIN tx : \E vals \in WriteInputs(impl) :
          /\ ids # {}
          /\ Cardinality(ids) > 1 => vals \in LinkVals(LinkCmds \cup SetCmds)
          /\ Done("write", ids, vals.keys, FALSE, write(impl, tx, ids, vals, move, percentage))
    /\ UNCHANGED <<replay, seq, sale, impl, gmp, dag, move, percentage, rule_active, docs, load_state, load_bol, sess>>

Activate ==
    /\ ops < MaxOps
    /\ \E id \in DOMAIN tx :
          Done("action_activate", {id}, {}, FALSE,
               action_activate(impl, tx, id, move, percentage))
    /\ UNCHANGED <<replay, seq, sale, impl, gmp, dag, move, percentage, rule_active, docs, load_state, load_bol, sess>>

Close ==
    /\ ops < MaxOps
    /\ \E id \in DOMAIN tx : \E manager \in BOOLEAN :
          Done("action_close", {id}, {}, manager,
               action_close(impl, tx, id, manager, move, percentage,
                            rule_active, docs, load_state))
    /\ UNCHANGED <<replay, seq, sale, impl, gmp, dag, move, percentage, rule_active, docs, load_state, load_bol, sess>>

\* An edit of a draft move changes amount_total; the stored fields of the
\* transactions that link the move are recomputed in the same flush.
MoveWriteAmount ==
    /\ ops < MaxOps
    /\ \E m \in MoveIds : \E a \in Amounts :
          /\ move[m].state = "draft"
          /\ a # move[m].amount_total
          /\ LET mv == [move EXCEPT ![m].amount_total = a]
                 r == Flush(impl, tx, tx, {}, mv, percentage)
             IN /\ move' = IF r.err = "" THEN mv ELSE move
                /\ Done("move_write", {m}, {"amount_total"}, FALSE, r)
    /\ UNCHANGED <<replay, seq, sale, impl, gmp, dag, percentage, rule_active, docs, load_state, load_bol, sess>>

\* write of percentage on the commission rule: only the Plasticos
\* _compute_financials depends on commission_rule_id.percentage
RuleWritePercentage ==
    /\ ops < MaxOps
    /\ \E p \in Percentages :
          /\ p # percentage
          /\ percentage' = p
          /\ Done("rule_write", {}, {"percentage"}, FALSE, Flush(impl, tx, tx, {}, move, p))
    /\ UNCHANGED <<replay, seq, sale, impl, gmp, dag, move, rule_active, docs, load_state, load_bol, sess>>

\* load.action_close on the draft load 1: with both BOL flags set, _transition
\* writes state = closed, which write() lets through for a draft load.
LoadClose ==
    /\ ops < MaxOps
    /\ load_state = "draft"
    /\ LET r == load_action_close(load_state, load_bol)
       IN /\ load_state' = r.state
          /\ Done("load_close", {}, {"state"}, FALSE, [err |-> r.err, tx |-> tx])
    /\ UNCHANGED <<replay, seq, sale, impl, gmp, dag, move, percentage, rule_active, docs, load_bol, sess>>

\* create of an active plasticos.document.rule for plasticos.transaction
RuleCreate ==
    /\ ops < MaxOps
    /\ ~rule_active
    /\ rule_active' = TRUE
    /\ Done("rule_create", {}, {"active"}, FALSE, [err |-> "", tx |-> tx])
    /\ UNCHANGED <<replay, seq, sale, impl, gmp, dag, move, percentage, docs, load_state, load_bol, sess>>

\* plasticos.document.action_verify on a document of the rule's tag that is
\* attached to transaction id
DocVerify ==
    /\ ops < MaxOps
    /\ \E id \in DOMAIN tx :
          /\ ~docs[id].verified
          /\ docs' = [docs EXCEPT ![id].verified = TRUE]
          /\ Done("action_verify", {id}, {"verified"}, FALSE, [err |-> "", tx |-> tx])
    /\ UNCHANGED <<replay, seq, sale, impl, gmp, dag, move, percentage, rule_active, load_state, load_bol, sess>>

\* confirmation of a sale order
SaleConfirm ==
    /\ ops < MaxOps
    /\ \E s \in SaleIds :
          /\ sale[s].transaction_id = 0 => NextId(tx) \in TxIds
          /\ LET r == action_confirm(impl, tx, sale, s, move, percentage, seq,
                                      rule_active, docs)
             IN /\ sale' = r.sale
                /\ Done("action_confirm", {s}, {}, FALSE, r)
    /\ UNCHANGED <<replay, seq, impl, gmp, dag, move, percentage, rule_active, docs, load_state, load_bol, sess>>

Init ==
    /\ impl \in Impls
    /\ gmp = NoGmp
    /\ dag = NoDag
    /\ tx = <<>>
    /\ seq = 1
    /\ sale = [s \in SaleIds |-> NewSale(s)]
    /\ replay = NoReplay
    /\ \E posted \in {MoveIds, Invoices, Bills} :
          move = [m \in MoveIds |->
                     [amount_total |-> IF m \in Invoices THEN 1000 ELSE 600,
                      state |-> IF m \in posted THEN "posted" ELSE "draft"]]
    /\ percentage = 1
    /\ rule_active = FALSE
    /\ docs = UnverifiedDocs
    /\ load_state = "draft"
    /\ load_bol = BothAttached
    /\ ops = 0
    /\ result = [op |-> "init", ids |-> {}, keys |-> {}, manager |-> FALSE, err |-> ""]
    /\ sess = [s \in Sessions |-> IdleSess]

Next ==
    \/ Create
    \/ Write
    \/ Activate
    \/ Close
    \/ MoveWriteAmount
    \/ RuleWritePercentage
    \/ LoadClose
    \/ RuleCreate
    \/ DocVerify
    \/ SaleConfirm

Spec == Init /\ [][Next]_vars

TypeOK ==
    /\ impl \in Impls
    /\ DOMAIN tx \subseteq TxIds
    /\ \A t \in DOMAIN tx : tx[t].state \in {"draft", "active", "closed"}
    /\ ops \in 0..MaxOps

\* ------------------------------------------------------ concurrent sessions
\* Each session runs one request in its own database transaction.  It reads
\* the snapshot snap taken when the request starts; the rows it wrote stay
\* locked and invisible to the others until it commits.
SerializationFailure == "SerializationFailure"

AttachVals(r) == Val1(r.slot, <<Link(r.bill)>>)

SlotSet(rec, slot) ==
    IF slot = "vendor_bill_ids" THEN rec.vendor_bill_ids ELSE rec.freight_bill_ids

\* a database in which no session ever waits for a row
NoRowLock(o, id) == FALSE

\* o holds the row lock of transaction id (SELECT ... FOR UPDATE or an
\* uncommitted UPDATE of the row)
HoldsRow(o, id) == sess[o].id = id /\ sess[o].pc \in {"locked", "written"}

\* o holds an uncommitted entry of a Plasticos unique index for (slot, bill)
HoldsIndex(o, slot, bill) ==
    /\ impl = "Plasticos"
    /\ sess[o].kind = "attach" /\ sess[o].pc = "written"
    /\ sess[o].slot = slot /\ sess[o].bill = bill

Step(s, pc, snap, err) ==
    sess' = [sess EXCEPT ![s].pc = pc, ![s].snap = snap, ![s].err = err]

\* write(): the "for rec in self" checks, on the snapshot of the request
attach_check ==
    /\ \E s \in Sessions :
          /\ sess[s].kind = "attach" /\ sess[s].pc = "idle"
          /\ LET e == WriteCheck(impl, tx, sess[s].id, AttachVals(sess[s]))
             IN Step(s, IF e = "" THEN "checked" ELSE "done", tx, e)
    /\ UNCHANGED <<replay, seq, sale, impl, gmp, dag, tx, move, percentage, rule_active, docs, load_state, load_bol, ops, result>>

\* super().write(): INSERT into the relation table and UPDATE of the row.
\* It waits for a session that holds the row or the same index entry; a row
\* committed by someone else since the snapshot is a serialization failure,
\* which either reaches the caller or makes the server run the request again.
attach_write ==
    /\ \E s \in Sessions :
          /\ sess[s].kind = "attach" /\ sess[s].pc = "checked"
          /\ \A o \in Sessions \ {s} :
                ~HoldsRow(o, sess[s].id) /\ ~HoldsIndex(o, sess[s].slot, sess[s].bill)
          /\ LET r == sess[s]
                 taken == \E o \in DOMAIN tx :
                             o # r.id /\ r.bill \in SlotSet(tx[o], r.slot)
             IN IF tx[r.id] # r.snap[r.id]
                THEN \/ Step(s, "done", r.snap, SerializationFailure)
                     \/ Step(s, "idle", r.snap, "")
                ELSE IF impl = "Plasticos" /\ taken
                THEN Step(s, "done", r.snap, IntegrityError)
                ELSE Step(s, "written", r.snap, "")
    /\ UNCHANGED <<replay, seq, sale, impl, gmp, dag, tx, move, percentage, rule_active, docs, load_state, load_bol, ops, result>>

\* COMMIT of an attach: the link and the recomputed fields become visible
attach_commit ==
    /\ \E s \in Sessions :
          /\ sess[s].kind = "attach" /\ sess[s].pc = "written"
          /\ LET r == sess[s]
                 new == [tx EXCEPT ![r.id] = ApplyVals(@, AttachVals(r))]
                 f == Flush(impl, tx, new, {}, move, percentage)
             IN /\ tx' = f.tx
                /\ Step(s, "done", r.snap, f.err)
    /\ UNCHANGED <<replay, seq, sale, impl, gmp, dag, move, percentage, rule_active, docs, load_state, load_bol, ops, result>>

\* start of an action_close request
close_begin ==
    /\ \E s \in Sessions :
          /\ sess[s].kind = "close" /\ sess[s].pc = "idle"
          /\ Step(s, "begun", tx, "")
    /\ UNCHANGED <<replay, seq, sale, impl, gmp, dag, tx, move, percentage, rule_active, docs, load_state, load_bol, ops, result>>

\* addons action_close: SELECT id FROM plasticos_transaction ... FOR UPDATE
close_lock ==
    /\ impl = "addons"
    /\ \E s \in Sessions :
          /\ sess[s].kind = "close" /\ sess[s].pc = "begun"
          /\ \A o \in Sessions \ {s} : ~HoldsRow(o, sess[s].id)
          /\ IF tx[sess[s].id] = sess[s].snap[sess[s].id]
             THEN Step(s, "locked", sess[s].snap, "")
             ELSE \/ Step(s, "done", sess[s].snap, SerializationFailure)
                  \/ Step(s, "locked", tx, "")
    /\ UNCHANGED <<replay, seq, sale, impl, gmp, dag, tx, move, percentage, rule_active, docs, load_state, load_bol, ops, result>>

\* the checks, the freeze and the commit of action_close: the UPDATE sets the
\* three written fields and the recomputed commission_amount of the row
close_run ==
    /\ \E s \in Sessions :
          /\ sess[s].kind = "close"
          /\ sess[s].pc = IF impl = "addons" THEN "locked" ELSE "begun"
          /\ \A o \in Sessions \ {s} : ~HoldsRow(o, sess[s].id)
          /\ LET r == sess[s]
                 c == action_close(impl, r.snap, r.id, r.manager, move, percentage,
                                   rule_active, docs, load_state)
                 w == c.tx[r.id]
             IN /\ tx' = IF c.err # "" THEN tx
                         ELSE [tx EXCEPT
                                 ![r.id].commission_locked_amount = w.commission_locked_amount,
                                 ![r.id].commission_locked = w.commission_locked,
                                 ![r.id].state = w.state,
                                 ![r.id].commission_amount = w.commission_amount]
                /\ Step(s, "done", r.snap, c.err)
    /\ UNCHANGED <<replay, seq, sale, impl, gmp, dag, move, percentage, rule_active, docs, load_state, load_bol, ops, result>>

PostedMoves ==
    [m \in MoveIds |-> [amount_total |-> IF m \in Invoices THEN 1000 ELSE 600,
                        state |-> "posted"]]

\* Tables the requests race on: two transactions made by create(), the first
\* optionally activated.
RaceTable(im, v1, activated) ==
    LET a == create(im, <<>>, v1, PostedMoves, 1, 1, FALSE, UnverifiedDocs).tx
        b == create(im, a, NoVals, PostedMoves, 1, 2, FALSE, UnverifiedDocs).tx
    IN IF activated THEN action_activate(im, b, 1, PostedMoves, 1).tx ELSE b

RaceRequests(ids) ==
    [kind : {"attach"}, id : ids, slot : {"vendor_bill_ids", "freight_bill_ids"},
     bill : Bills, manager : {FALSE}, pc : {"idle"}, snap : {<<>>}, err : {""}]
    \cup
    [kind : {"close"}, id : ids, slot : {""}, bill : {0}, manager : {TRUE},
     pc : {"idle"}, snap : {<<>>}, err : {""}]

InitRace ==
    /\ impl \in Impls
    /\ gmp = NoGmp
    /\ dag = NoDag
    /\ seq = 3
    /\ sale = [s \in SaleIds |-> NewSale(s)]
    /\ replay = NoReplay
    /\ move = PostedMoves
    /\ percentage = 1
    /\ rule_active = FALSE
    /\ docs = UnverifiedDocs
    /\ load_state = "closed"
    /\ load_bol = BothAttached
    /\ ops = 0
    /\ result = [op |-> "init", ids |-> {}, keys |-> {}, manager |-> FALSE, err |-> ""]
    /\ \E v1 \in {NoVals, Val2("customer_invoice_id", 1, "commission_rule_id", 1),
                     Val3("customer_invoice_id", 1,
                          "vendor_bill_ids", <<Link(MaxInvoice + 1)>>,
                          "commission_rule_id", 1)} :
          \E activated \in BOOLEAN : tx = RaceTable(impl, v1, activated)
    /\ sess \in [Sessions -> RaceRequests(DOMAIN tx)]

NextRace ==
    \/ attach_check
    \/ attach_write
    \/ attach_commit
    \/ close_begin
    \/ close_lock
    \/ close_run

SpecRace == InitRace /\ [][NextRace]_vars

\* ------------------------------------------------------------------- unlink
\* addons unlink(): a linked or closed record stops the whole call
UnlinkCheckAddons(rec) ==
    IF \/ rec.customer_invoice_id # 0
       \/ rec.vendor_bill_ids # {}
       \/ rec.freight_bill_ids # {}
    THEN "Cannot delete transaction linked to accounting records."
    ELSE IF rec.state = "closed" THEN "Closed transactions cannot be deleted."
    ELSE ""

\* Plasticos unlink(): only a closed record stops the call
UnlinkCheckPlasticos(rec) ==
    IF rec.state = "closed" THEN "Closed transactions cannot be deleted." ELSE ""

UnlinkCheck(im, rec) ==
    IF im = "Plasticos" THEN UnlinkCheckPlasticos(rec) ELSE UnlinkCheckAddons(rec)

\* unlink() on the recordset ids: the first failing record raises, else
\* super().unlink() deletes every row of ids
unlink(im, txs, ids) ==
    LET bad == {t \in ids : UnlinkCheck(im, txs[t]) # ""}
    IN IF bad # {}
       THEN LET first == CHOOSE t \in bad : \A u \in bad : t <= u
            IN [err |-> UnlinkCheck(im, txs[first]), tx |-> txs]
       ELSE [err |-> "", tx |-> [t \in DOMAIN txs \ ids |-> txs[t]]]

Unlink ==
    /\ ops < MaxOps
    /\ \E ids \in SUBSET DOMAIN tx :
          /\ ids # {}
          /\ Done("unlink", ids, {}, FALSE, unlink(impl, tx, ids))
    /\ UNCHANGED <<replay, seq, sale, impl, gmp, dag, move, percentage, rule_active, docs, load_state, load_bol, sess>>

\* Tables on which records get deleted: two transactions made by create(),
\* the first with a link or a state of its own.  No record is created once
\* one has been deleted, so no id is ever given twice.
UnlinkCreateVals ==
    {NoVals, Val1("state", "closed")}
        \cup {Val1("customer_invoice_id", i) : i \in Invoices}
        \cup LinkVals(LinkCmds)

InitUnlink ==
    /\ impl \in Impls
    /\ gmp = NoGmp
    /\ dag = NoDag
    /\ seq = 3
    /\ sale = [s \in SaleIds |-> NewSale(s)]
    /\ replay = NoReplay
    /\ \E posted \in {MoveIds, Invoices, Bills} :
          move = [m \in MoveIds |->
                     [amount_total |-> IF m \in Invoices THEN 1000 ELSE 600,
                      state |-> IF m \in posted THEN "posted" ELSE "draft"]]
    /\ percentage = 1
    /\ rule_active = FALSE
    /\ docs = UnverifiedDocs
    /\ load_state = "draft"
    /\ load_bol = BothAttached
    /\ ops = 0
    /\ result = [op |-> "init", ids |-> {}, keys |-> {}, manager |-> FALSE, err |-> ""]
    /\ sess = [s \in Sessions |-> IdleSess]
    /\ \E v1 \in UnlinkCreateVals :
          tx = create(impl,
                      create(impl, <<>>, v1, move, 1, 1, rule_active, docs).tx,
                      NoVals, move, 1, 2, rule_active, docs).tx

NextUnlink ==
    \/ Write
    \/ Activate
    \/ Close
    \/ Unlink

SpecUnlink == InitUnlink /\ [][NextUnlink]_vars

\* -------------------------------------------------------------- replay test
\* TestDeterministicReplay: _build_transaction runs create, attach invoice,
\* attach vendor bill, action_activate, action_close; the test runs it,
\* rolls back to the savepoint taken on the clean database, and runs it again.
ReplayTx == 1
ReplayInvoice == 1
ReplayBill == MaxInvoice + 1
ReplayInvoiceAmounts == {500, 1000}

\* a payload that also takes the reference
snapshot_with_name(rec) ==
    [name |-> rec.name,
     revenue_total |-> rec.revenue_total,
     cost_total |-> rec.cost_total,
     gross_margin |-> rec.gross_margin,
     commission_amount |-> rec.commission_amount,
     net_margin |-> rec.net_margin,
     commission_locked |-> rec.commission_locked]

\* _snapshot_hash: the payload that is hashed
snapshot_payload(rec) ==
    [name |-> "",
     revenue_total |-> rec.revenue_total,
     cost_total |-> rec.cost_total,
     gross_margin |-> rec.gross_margin,
     commission_amount |-> rec.commission_amount,
     net_margin |-> rec.net_margin,
     commission_locked |-> rec.commission_locked]

\* One statement of _build_transaction with outcome r; nxt is the statement
\* after it.  An exception ends the test.
ReplayStep(op, r, nxt) ==
    /\ tx' = r.tx
    /\ result' = [op |-> op, ids |-> {ReplayTx}, keys |-> {}, manager |-> replay.manager,
                  err |-> r.err]
    /\ replay' = IF r.err = "" THEN [replay EXCEPT !.pc = nxt]
                 ELSE [replay EXCEPT !.pc = "failed", !.err = r.err]

replay_create ==
    /\ replay.pc = "create"
    /\ LET vals == IF replay.rule = 0 THEN Val1("sale_order_id", 1)
                   ELSE Val2("sale_order_id", 1, "commission_rule_id", replay.rule)
       IN ReplayStep("create",
                     create(impl, tx, vals, move, percentage, seq, rule_active, docs),
                     "attach_invoice")
    /\ seq' = seq + 1
    /\ UNCHANGED <<sale, impl, gmp, dag, move, percentage, rule_active, docs, load_state, load_bol, ops, sess>>

replay_attach_invoice ==
    /\ replay.pc = "attach_invoice"
    /\ ReplayStep("write",
                  write(impl, tx, {ReplayTx}, Val1("customer_invoice_id", ReplayInvoice),
                        move, percentage),
                  "attach_bill")
    /\ UNCHANGED <<seq, sale, impl, gmp, dag, move, percentage, rule_active, docs, load_state, load_bol, ops, sess>>

replay_attach_bill ==
    /\ replay.pc = "attach_bill"
    /\ ReplayStep("write",
                  write(impl, tx, {ReplayTx}, Val1("vendor_bill_ids", <<Link(ReplayBill)>>),
                        move, percentage),
                  "activate")
    /\ UNCHANGED <<seq, sale, impl, gmp, dag, move, percentage, rule_active, docs, load_state, load_bol, ops, sess>>

replay_activate ==
    /\ replay.pc = "activate"
    /\ ReplayStep("action_activate",
                  action_activate(impl, tx, ReplayTx, move, percentage), "close")
    /\ UNCHANGED <<seq, sale, impl, gmp, dag, move, percentage, rule_active, docs, load_state, load_bol, ops, sess>>

replay_close ==
    /\ replay.pc = "close"
    /\ ReplayStep("action_close",
                  action_close(impl, tx, ReplayTx, replay.manager, move, percentage,
                               rule_active, docs, load_state),
                  "built")
    /\ UNCHANGED <<seq, sale, impl, gmp, dag, move, percentage, rule_active, docs, load_state, load_bol, ops, sess>>

\* h1 is taken, ROLLBACK TO SAVEPOINT replay_start empties the table (the
\* sequence keeps its position), and the second build starts.  A first build
\* that raised is replayed as well, from the same savepoint.
replay_rollback ==
    /\ replay.pc \in {"built", "failed"}
    /\ replay.run = 1
    /\ tx' = <<>>
    /\ replay' = [replay EXCEPT !.run = 2, !.pc = "create", !.err = "",
                                !.first = {snapshot_payload(tx[ReplayTx])},
                                !.first_err = replay.err]
    /\ result' = [op |-> "rollback", ids |-> {}, keys |-> {}, manager |-> replay.manager,
                  err |-> ""]
    /\ UNCHANGED <<seq, sale, impl, gmp, dag, move, percentage, rule_active, docs, load_state, load_bol, ops, sess>>

InitReplay ==
    /\ impl \in Impls
    /\ gmp = NoGmp
    /\ dag = NoDag
    /\ tx = <<>>
    /\ seq = 1
    /\ sale = [s \in SaleIds |-> NewSale(s)]
    /\ \E posted \in {MoveIds, Invoices, Bills} :
          \E ia \in ReplayInvoiceAmounts : \E ba \in Amounts :
             move = [m \in MoveIds |->
                        [amount_total |-> IF m \in Invoices THEN ia ELSE ba,
                         state |-> IF m \in posted THEN "posted" ELSE "draft"]]
    /\ percentage \in Percentages
    /\ rule_active \in BOOLEAN
    /\ docs \in {UnverifiedDocs, [UnverifiedDocs EXCEPT ![ReplayTx].verified = TRUE]}
    /\ load_state = "draft"
    /\ load_bol = BothAttached
    /\ ops = 0
    /\ result = [op |-> "init", ids |-> {}, keys |-> {}, manager |-> FALSE, err |-> ""]
    /\ sess = [s \in Sessions |-> IdleSess]
    /\ \E manager \in BOOLEAN : \E rule \in {0, 1} :
          replay = [run |-> 1, pc |-> "create", manager |-> manager, rule |-> rule,
                    first |-> {}, first_err |-> "", err |-> ""]

NextReplay ==
    \/ replay_create
    \/ replay_attach_invoice
    \/ replay_attach_bill
    \/ replay_activate
    \/ replay_close
    \/ replay_rollback

SpecReplay == InitReplay /\ [][NextReplay]_vars

\* ------------------------------------------------------- document overrides
Reasons == {"", "waived by the customer"}

\* plasticos.document.action_override(reason), called by a user who is a
\* documents manager or is not
action_override(documents, id, reason, manager) ==
    IF ~manager
    THEN [err |-> "Not authorized to override.", docs |-> documents]
    ELSE [err |-> "",
          docs |-> [documents EXCEPT ![id].override = TRUE,
                                     ![id].override_reason = reason]]

DocOverride ==
    /\ ops < MaxOps
    /\ \E id \in DOMAIN tx : \E reason \in Reasons : \E manager \in BOOLEAN :
          LET r == action_override(docs, id, reason, manager)
          IN /\ docs' = r.docs
             /\ Done("action_override", {id}, IF reason = "" THEN {} ELSE {"reason"},
                     manager, [err |-> r.err, tx |-> tx])
    /\ UNCHANGED <<replay, seq, sale, impl, gmp, dag, move, percentage, rule_active, load_state, load_bol, sess>>

\* write({'override': True, 'override_reason': reason}) on the document:
\* plasticos.document overrides neither write() nor the fields' access
DocWrite ==
    /\ ops < MaxOps
    /\ \E id \in DOMAIN tx : \E reason \in Reasons : \E manager \in BOOLEAN :
          /\ docs' = [docs EXCEPT ![id].override = TRUE, ![id].override_reason = reason]
          /\ Done("document_write", {id}, {"override", "override_reason"}, manager,
                  [err |-> "", tx |-> tx])
    /\ UNCHANGED <<replay, seq, sale, impl, gmp, dag, move, percentage, rule_active, load_state, load_bol, sess>>

\* Documents are verified and overridden on two transactions made by
\* create(), the first with a posted invoice, a posted vendor bill and a
\* commission rule, and activated.
InitDocs ==
    /\ impl \in Impls
    /\ gmp = NoGmp
    /\ dag = NoDag
    /\ seq = 3
    /\ sale = [s \in SaleIds |-> NewSale(s)]
    /\ replay = NoReplay
    /\ move = PostedMoves
    /\ percentage = 1
    /\ rule_active \in BOOLEAN
    /\ docs = UnverifiedDocs
    /\ load_state = "draft"
    /\ load_bol = BothAttached
    /\ ops = 0
    /\ result = [op |-> "init", ids |-> {}, keys |-> {}, manager |-> FALSE, err |-> ""]
    /\ sess = [s \in Sessions |-> IdleSess]
    /\ tx = RaceTable(impl,
                      Val3("customer_invoice_id", 1,
                           "vendor_bill_ids", <<Link(MaxInvoice + 1)>>,
                           "commission_rule_id", 1),
                      TRUE)

NextDocs ==
    \/ Close
    \/ RuleCreate
    \/ DocVerify
    \/ DocOverride
    \/ DocWrite

SpecDocs == InitDocs /\ [][NextDocs]_vars

\* ------------------------------------------------------------- account.move
\* The search of the three hooks: transactions whose customer_invoice_id is
\* the move or whose vendor_bill_ids contain it.
SearchByMove(txs, m) ==
    {t \in DOMAIN txs : txs[t].customer_invoice_id = m \/ m \in txs[t].vendor_bill_ids}

LinkedToClosed(txs, m) == \E t \in SearchByMove(txs, m) : txs[t].state = "closed"

\* button_cancel: the hook, then account.move's own button_cancel, which
\* takes a draft or posted move to cancel
button_cancel(txs, mv, m) ==
    IF LinkedToClosed(txs, m)
    THEN [err |-> "Cannot cancel invoice/bill linked to closed transaction.",
          tx |-> txs, move |-> mv]
    ELSE [err |-> "", tx |-> txs, move |-> [mv EXCEPT ![m].state = "cancel"]]

\* the rows left when move m is deleted: the many2one is set to null and the
\* rows of the two relation tables go with the move
DropMove(txs, m) ==
    [t \in DOMAIN txs |->
        [txs[t] EXCEPT
            !.customer_invoice_id = IF @ = m THEN 0 ELSE @,
            !.vendor_bill_ids = @ \ {m},
            !.freight_bill_ids = @ \ {m}]]

\* unlink: the hook, then account.move's own unlink, which refuses a posted
\* entry; the stored fields of the transactions that lose a link are
\* recomputed in the same flush
move_unlink(im, txs, mv, m, pct) ==
    IF LinkedToClosed(txs, m)
    THEN [err |-> "Cannot delete invoice/bill linked to closed transaction.",
          tx |-> txs, move |-> mv]
    ELSE IF mv[m].state = "posted"
    THEN [err |-> "You cannot delete an item linked to a posted entry.",
          tx |-> txs, move |-> mv]
    ELSE LET gone == [mv EXCEPT ![m] = [state |-> "deleted", amount_total |-> 0]]
             r == Flush(im, txs, DropMove(txs, m), {}, gone, pct)
         IN [err |-> r.err, tx |-> r.tx, move |-> IF r.err = "" THEN gone ELSE mv]

\* action_post of a credit note (out_refund or in_refund) whose
\* reversed_entry_id is m: the note is posted, then the hook may raise and
\* roll the posting back
action_post_refund(txs, m) ==
    IF LinkedToClosed(txs, m)
    THEN [err |-> "Cannot post credit note for closed transaction.", tx |-> txs]
    ELSE [err |-> "", tx |-> txs]

MoveCancel ==
    /\ ops < MaxOps
    /\ \E m \in MoveIds :
          /\ move[m].state \in {"draft", "posted"}
          /\ LET r == button_cancel(tx, move, m)
             IN /\ move' = r.move
                /\ Done("button_cancel", {m}, {}, FALSE, r)
    /\ UNCHANGED <<replay, seq, sale, impl, gmp, dag, percentage, rule_active, docs, load_state, load_bol, sess>>

MoveUnlink ==
    /\ ops < MaxOps
    /\ \E m \in MoveIds :
          /\ move[m].state # "deleted"
          /\ LET r == move_unlink(impl, tx, move, m, percentage)
             IN /\ move' = r.move
                /\ Done("move_unlink", {m}, {}, FALSE, r)
    /\ UNCHANGED <<replay, seq, sale, impl, gmp, dag, percentage, rule_active, docs, load_state, load_bol, sess>>

RefundPost ==
    /\ ops < MaxOps
    /\ \E m \in MoveIds :
          /\ move[m].state = "posted"
          /\ Done("action_post_refund", {m}, {}, FALSE, action_post_refund(tx, m))
    /\ UNCHANGED <<replay, seq, sale, impl, gmp, dag, move, percentage, rule_active, docs, load_state, load_bol, sess>>

\* Tables whose moves get cancelled, deleted or reversed: two transactions
\* made by create(), the first with a customer invoice, a vendor bill and a
\* freight bill, either activated or created in state closed.
MoveTable(im, mv, closed) ==
    LET links == Val3("customer_invoice_id", 1,
                      "vendor_bill_ids", <<Link(MaxInvoice + 1)>>,
                      "freight_bill_ids", <<Link(MaxInvoice + 2)>>)
        v1 == IF closed
              THEN [links EXCEPT !.keys = @ \cup {"state"}, !.state = "closed"]
              ELSE links
        a == create(im, <<>>, v1, mv, 1, 1, FALSE, UnverifiedDocs).tx
        b == create(im, a, NoVals, mv, 1, 2, FALSE, UnverifiedDocs).tx
    IN IF closed THEN b ELSE action_activate(im, b, 1, mv, 1).tx

InitMoves ==
    /\ impl \in Impls
    /\ gmp = NoGmp
    /\ dag = NoDag
    /\ seq = 3
    /\ sale = [s \in SaleIds |-> NewSale(s)]
    /\ replay = NoReplay
    /\ \E draft \in SUBSET {MaxInvoice + 2} :
          move = [m \in MoveIds |->
                     [amount_total |-> IF m \in Invoices THEN 1000 ELSE 300,
                      state |-> IF m \in draft THEN "draft" ELSE "posted"]]
    /\ percentage = 1
    /\ rule_active = FALSE
    /\ docs = UnverifiedDocs
    /\ load_state = "draft"
    /\ load_bol = BothAttached
    /\ ops = 0
    /\ result = [op |-> "init", ids |-> {}, keys |-> {}, manager |-> FALSE, err |-> ""]
    /\ sess = [s \in Sessions |-> IdleSess]
    /\ \E closed \in BOOLEAN : tx = MoveTable(impl, move, closed)

NextMoves ==
    \/ Close
    \/ MoveCancel
    \/ MoveUnlink
    \/ RefundPost

SpecMoves == InitMoves /\ [][NextMoves]_vars

\* ------------------------------------------------- sale order confirmations
\* sale.order is inherited with its own action_cancel and action_draft: a
\* confirmed order can be cancelled, and a cancelled order set back to a
\* quotation, which can be confirmed again.
SaleCancel ==
    /\ \E s \in SaleIds :
          /\ sale[s].state = "sale"
          /\ sale' = [sale EXCEPT ![s].state = "cancel"]
          /\ result' = [op |-> "action_cancel", ids |-> {s}, keys |-> {},
                        manager |-> FALSE, err |-> ""]
    /\ UNCHANGED <<replay, seq, impl, gmp, dag, tx, move, percentage, rule_active, docs, load_state, load_bol, ops, sess>>

SaleDraft ==
    /\ \E s \in SaleIds :
          /\ sale[s].state = "cancel"
          /\ sale' = [sale EXCEPT ![s].state = "draft"]
          /\ result' = [op |-> "action_draft", ids |-> {s}, keys |-> {},
                        manager |-> FALSE, err |-> ""]
    /\ UNCHANGED <<replay, seq, impl, gmp, dag, tx, move, percentage, rule_active, docs, load_state, load_bol, ops, sess>>

\* Orders are quotations, or were confirmed once already.
InitSale ==
    /\ impl \in Impls
    /\ gmp = NoGmp
    /\ dag = NoDag
    /\ seq = 1
    /\ replay = NoReplay
    /\ \E posted \in {MoveIds, Invoices} :
          move = [m \in MoveIds |->
                     [amount_total |-> IF m \in Invoices THEN 1000 ELSE 600,
                      state |-> IF m \in posted THEN "posted" ELSE "draft"]]
    /\ percentage = 1
    /\ rule_active = FALSE
    /\ docs = UnverifiedDocs
    /\ load_state = "draft"
    /\ load_bol = BothAttached
    /\ ops = 0
    /\ result = [op |-> "init", ids |-> {}, keys |-> {}, manager |-> FALSE, err |-> ""]
    /\ sess = [s \in Sessions |-> IdleSess]
    /\ \E confirmed \in BOOLEAN :
          LET new == [s \in SaleIds |-> NewSale(s)]
              r == action_confirm(impl, <<>>, new, 1, move, percentage, seq,
                                  rule_active, docs)
          IN IF confirmed THEN tx = r.tx /\ sale = r.sale
                          ELSE tx = <<>> /\ sale = new

NextSale ==
    \/ SaleConfirm
    \/ SaleCancel
    \/ SaleDraft
    \/ Write
    \/ Close

SpecSale == InitSale /\ [][NextSale]_vars

\* ------------------------------------------------------ 1.1.0 pre-migration
\* the loop of migrate(): for each id, a reference is taken from the sequence
\* and written through write(); the first exception ends the migration.  The
\* SELECT has no ORDER BY; the rows are taken in id order here.
RECURSIVE backfill_names(_, _, _, _, _, _)
backfill_names(im, txs, ids, mv, pct, n) ==
    IF ids = {} THEN [err |-> "", tx |-> txs, seq |-> n]
    ELSE LET tx_id == CHOOSE t \in ids : \A u \in ids : t <= u
             w == write(im, txs, {tx_id}, Val1("name", next_by_code(n)), mv, pct)
         IN IF w.err # "" THEN [err |-> w.err, tx |-> txs, seq |-> n + 1]
            ELSE backfill_names(im, w.tx, ids \ {tx_id}, mv, pct, n + 1)

\* UPDATE ... SET commission_locked_amount = commission_amount WHERE
\* commission_locked = TRUE AND commission_locked_amount is null or 0
backfill_locked_amount(txs) ==
    [t \in DOMAIN txs |->
        IF txs[t].commission_locked /\ txs[t].commission_locked_amount = 0
        THEN [txs[t] EXCEPT !.commission_locked_amount = txs[t].commission_amount]
        ELSE txs[t]]

\* migrate(cr, version): an exception rolls the database back, but not the
\* sequence
migrate(im, txs, mv, pct, n) ==
    LET ids == {t \in DOMAIN txs : txs[t].name = "New"}
        b == backfill_names(im, txs, ids, mv, pct, n)
    IN IF b.err # "" THEN [err |-> b.err, tx |-> txs, seq |-> b.seq]
       ELSE [err |-> "", tx |-> backfill_locked_amount(b.tx), seq |-> b.seq]

Migrate ==
    /\ ops = 0
    /\ LET r == migrate(impl, tx, move, percentage, seq)
       IN /\ seq' = r.seq
          /\ Done("migrate", {t \in DOMAIN tx : tx[t].name = "New"}, {"name"}, FALSE, r)
    /\ UNCHANGED <<replay, sale, impl, gmp, dag, move, percentage, rule_active, docs, load_state, load_bol, sess>>

\* the rows of a database of the version before 1.1.0: those of unnamed hold
\* the reference 'New'
Unnamed(txs, unnamed) ==
    [t \in DOMAIN txs |-> IF t \in unnamed THEN [txs[t] EXCEPT !.name = "New"] ELSE txs[t]]

InitMigrate ==
    /\ impl \in Impls
    /\ gmp = NoGmp
    /\ dag = NoDag
    /\ seq = 3
    /\ sale = [s \in SaleIds |-> NewSale(s)]
    /\ replay = NoReplay
    /\ move = PostedMoves
    /\ percentage = 1
    /\ rule_active = FALSE
    /\ docs = UnverifiedDocs
    /\ load_state = "draft"
    /\ load_bol = BothAttached
    /\ ops = 0
    /\ result = [op |-> "init", ids |-> {}, keys |-> {}, manager |-> FALSE, err |-> ""]
    /\ sess = [s \in Sessions |-> IdleSess]
    /\ \E v1 \in CreateInputs : \E unnamed \in SUBSET TxIds :
          LET a == create(impl, <<>>, v1, move, percentage, 1, rule_active, docs)
              b == create(impl, a.tx, NoVals, move, percentage, 2, rule_active, docs)
          IN /\ a.err = "" /\ b.err = ""
             /\ tx = Unnamed(b.tx, unnamed)

NextMigrate ==
    \/ Migrate

SpecMigrate == InitMigrate /\ [][NextMigrate]_vars

\* ------------------------------------------------------- the life of a load
\* VALID_TRANSITIONS of the logistics state machine service
VALID_TRANSITIONS(lstate) ==
    CASE lstate = "draft" -> {"awaiting_ready"}
      [] lstate = "awaiting_ready" -> {"ready_confirmed"}
      [] lstate = "ready_confirmed" -> {"rate_confirmed"}
      [] lstate = "rate_confirmed" -> {"scheduled"}
      [] lstate = "scheduled" -> {"dispatched"}
      [] lstate = "dispatched" -> {"picked_up"}
      [] lstate = "picked_up" -> {"delivered"}
      [] lstate = "delivered" -> {"closed"}
      [] OTHER -> {}

LoadDone(op, keys, r) ==
    /\ load_state' = r.state
    /\ result' = [op |-> op, ids |-> {}, keys |-> keys, manager |-> FALSE, err |-> r.err]

LoadRest == <<replay, seq, sale, impl, gmp, dag, tx, move, percentage, rule_active, docs, ops, sess>>

\* write({'bol_pickup_attached': True}) or write({'bol_delivery_attached': True})
LoadAttachBol ==
    /\ \E f \in {"bol_pickup_attached", "bol_delivery_attached"} :
          LET e == load_write_check(load_state, {f})
          IN /\ load_bol' = IF e # "" THEN load_bol
                            ELSE IF f = "bol_pickup_attached"
                                 THEN [load_bol EXCEPT !.pickup = TRUE]
                                 ELSE [load_bol EXCEPT !.delivery = TRUE]
             /\ LoadDone("load_write", {f}, [err |-> e, state |-> load_state])
    /\ UNCHANGED LoadRest

LoadConfirmReady ==
    /\ LoadDone("action_confirm_ready", {},
                write_then_transition(load_state, {"ready_confirmed_by"}, "ready_confirmed"))
    /\ UNCHANGED <<load_bol, LoadRest>>

LoadConfirmRate ==
    /\ LoadDone("action_confirm_rate", {},
                write_then_transition(load_state, {"rate_amount"}, "rate_confirmed"))
    /\ UNCHANGED <<load_bol, LoadRest>>

LoadSchedule ==
    /\ LoadDone("action_schedule", {},
                write_then_transition(load_state, {"pickup_datetime"}, "scheduled"))
    /\ UNCHANGED <<load_bol, LoadRest>>

LoadDispatch ==
    /\ LoadDone("action_dispatch", {}, load_action_dispatch(load_state))
    /\ UNCHANGED <<load_bol, LoadRest>>

\* _transition to the state that follows the present one
LoadTransition ==
    /\ \E new_state \in VALID_TRANSITIONS(load_state) :
          LoadDone("_transition", {new_state}, transition(load_state, new_state))
    /\ UNCHANGED <<load_bol, LoadRest>>

LoadActionClose ==
    /\ LoadDone("action_close", {}, load_action_close(load_state, load_bol))
    /\ UNCHANGED <<load_bol, LoadRest>>

\* A load as created by default, or by action_create_load of the sale order,
\* with no bill of lading attached; transaction 1 is linked to it.
InitLoad ==
    /\ impl \in Impls
    /\ gmp = NoGmp
    /\ dag = NoDag
    /\ seq = 2
    /\ sale = [s \in SaleIds |-> NewSale(s)]
    /\ replay = NoReplay
    /\ move = PostedMoves
    /\ percentage = 1
    /\ rule_active = FALSE
    /\ docs = UnverifiedDocs
    /\ load_state \in {"draft", "awaiting_ready"}
    /\ load_bol = [pickup |-> FALSE, delivery |-> FALSE]
    /\ ops = 0
    /\ result = [op |-> "init", ids |-> {}, keys |-> {}, manager |-> FALSE, err |-> ""]
    /\ sess = [s \in Sessions |-> IdleSess]
    /\ tx = create(impl, <<>>, Val2("customer_invoice_id", 1, "load_id", 1), move,
                   percentage, 1, rule_active, docs).tx

NextLoad ==
    \/ LoadAttachBol
    \/ LoadConfirmReady
    \/ LoadConfirmRate
    \/ LoadSchedule
    \/ LoadDispatch
    \/ LoadTransition
    \/ LoadActionClose

SpecLoad == InitLoad /\ [][NextLoad]_vars

\* The users of the load keep calling what they need: a call that stays
\* possible is made in the end.
SpecLoadFair ==
    /\ SpecLoad
    /\ WF_vars(LoadAttachBol)
    /\ WF_vars(LoadTransition)
    /\ WF_vars(LoadActionClose)

\* ---------------------------------------------------------------- GMP graph
\* GMPState.max_retries is 3 unless the caller of GMPState sets it
MaxRetries == 3

\* The compiled graph is invoked without recursion_limit in its config:
\* LangGraph stops a run that has not ended after 25 steps, with
\* GraphRecursionError.
RecursionLimit == 25

GmpRest ==
    <<impl, tx, move, percentage, rule_active, docs, load_state, load_bol, ops, result,
      sess, seq, sale, replay, dag>>

route_after_scope_lock(state) ==
    IF state.errors THEN "aborted"
    ELSE IF ~state.todo_plan THEN "aborted"
    ELSE "baseline"

\* a router that counts the retries it grants
route_after_validation_counting(state) ==
    IF state.validation_passed THEN [to |-> "memory_write", state |-> state]
    ELSE IF state.retry_count < state.max_retries
    THEN [to |-> "implement", state |-> [state EXCEPT !.retry_count = @ + 1]]
    ELSE [to |-> "aborted", state |-> state]

\* route_after_validation of routing.py, the one build_gmp_graph imports
route_after_validation(state) ==
    IF state.validation_passed THEN [to |-> "memory_write", state |-> state]
    ELSE IF state.retry_count < state.max_retries
    THEN [to |-> "implement", state |-> state]
    ELSE [to |-> "aborted", state |-> state]

\* one step of the compiled graph: the node to run has left state s, the
\* edge out of it leads to nxt
GmpRun(s, nxt) ==
    /\ gmp.steps < RecursionLimit
    /\ gmp' = [s EXCEPT !.node = nxt, !.last = gmp.node, !.steps = gmp.steps + 1]
    /\ UNCHANGED GmpRest

GmpStart ==
    /\ gmp.node = "start"
    /\ GmpRun(gmp, "memory_read")

GmpMemoryRead ==
    /\ gmp.node = "memory_read"
    /\ GmpRun(gmp, "scope_lock")

\* node_scope_lock: no todo_plan is an error; an item of the plan may lack a
\* field or name a file that does not exist
GmpScopeLock ==
    /\ gmp.node = "scope_lock"
    /\ \E bad \in BOOLEAN :
          LET s == [gmp EXCEPT !.errors = @ \/ ~gmp.todo_plan \/ bad]
          IN GmpRun(s, route_after_scope_lock(s))

GmpBaseline ==
    /\ gmp.node = "baseline"
    /\ GmpRun(gmp, "implement")

\* node_implement: every item applied adds its file to files_modified; an
\* item that fails adds an error
GmpImplement ==
    /\ gmp.node = "implement"
    /\ \E modified \in BOOLEAN : \E failed \in BOOLEAN :
          GmpRun([gmp EXCEPT !.files_modified = @ \/ modified, !.errors = @ \/ failed],
                 "validate")

\* node_validate, then the conditional edge
GmpValidate ==
    /\ gmp.node = "validate"
    /\ \E all_passed \in BOOLEAN :
          LET s == [gmp EXCEPT !.validation_passed =
                                   IF ~gmp.files_modified THEN TRUE ELSE all_passed]
              r == route_after_validation(s)
          IN GmpRun([r.state EXCEPT !.retries = IF r.to = "implement" THEN @ + 1 ELSE @],
                    r.to)

GmpMemoryWrite ==
    /\ gmp.node = "memory_write"
    /\ GmpRun(gmp, "finalize")

GmpFinalize ==
    /\ gmp.node = "finalize"
    /\ GmpRun(gmp, "end")

GmpEnd ==
    /\ gmp.node = "end"
    /\ GmpRun(gmp, "END")

GmpAborted ==
    /\ gmp.node = "aborted"
    /\ GmpRun(gmp, "END")

GmpRecursionError ==
    /\ gmp.node \notin {"END", "GraphRecursionError", "none"}
    /\ gmp.steps >= RecursionLimit
    /\ gmp' = [gmp EXCEPT !.node = "GraphRecursionError"]
    /\ UNCHANGED GmpRest

InitGmp ==
    /\ impl = "addons"
    /\ tx = <<>>
    /\ seq = 1
    /\ sale = [s \in SaleIds |-> NewSale(s)]
    /\ replay = NoReplay
    /\ dag = NoDag
    /\ move = PostedMoves
    /\ percentage = 1
    /\ rule_active = FALSE
    /\ docs = UnverifiedDocs
    /\ load_state = "draft"
    /\ load_bol = BothAttached
    /\ ops = 0
    /\ result = [op |-> "init", ids |-> {}, keys |-> {}, manager |-> FALSE, err |-> ""]
    /\ sess = [s \in Sessions |-> IdleSess]
    /\ \E retries \in 0..MaxRetries : \E plan \in BOOLEAN :
          gmp = [NoGmp EXCEPT !.node = "start", !.last = "START",
                              !.max_retries = retries, !.todo_plan = plan]

NextGmp ==
    \/ GmpStart
    \/ GmpMemoryRead
    \/ GmpScopeLock
    \/ GmpBaseline
    \/ GmpImplement
    \/ GmpValidate
    \/ GmpMemoryWrite
    \/ GmpFinalize
    \/ GmpEnd
    \/ GmpAborted
    \/ GmpRecursionError

SpecGmp == InitGmp /\ [][NextGmp]_vars

\* The graph runs on as long as a node is left to run.
SpecGmpFair == SpecGmp /\ WF_vars(NextGmp)

\* ---------------------------------------------------------------- DAGRunner
Steps == 1..MaxSteps

DagRest ==
    <<impl, tx, move, percentage, rule_active, docs, load_state, load_bol, ops, result,
      sess, seq, sale, replay, gmp>>

\* the ids of S in the order of the list they stand in
RECURSIVE Ascending(_)
Ascending(S) ==
    IF S = {} THEN <<>>
    ELSE LET m == CHOOSE x \in S : \A y \in S : x <= y
         IN <<m>> \o Ascending(S \ {m})

\* _topological_order: visit(step_id) visits the dependencies first, then
\* appends the step; vo carries visited and order
RECURSIVE visit(_, _, _)
RECURSIVE visit_each(_, _, _)
visit(depends_on, step_id, vo) ==
    IF step_id \in vo.visited THEN vo
    ELSE LET seen == [vo EXCEPT !.visited = @ \cup {step_id}]
             after == visit_each(depends_on, Ascending(depends_on[step_id]), seen)
         IN [after EXCEPT !.order = Append(@, step_id)]

visit_each(depends_on, ids, vo) ==
    IF ids = <<>> THEN vo
    ELSE visit_each(depends_on, Tail(ids), visit(depends_on, Head(ids), vo))

topological_order(depends_on) ==
    visit_each(depends_on, Ascending(Steps), [visited |-> {}, order |-> <<>>]).order

\* _get_ready_steps: the pending steps all of whose dependencies are completed
get_ready_steps(d) ==
    {s \in Steps :
        /\ d.status[s] = "pending"
        /\ \A dep \in d.depends_on[s] : d.status[dep] = "completed"}

\* load() and the head of run(): the steps are parsed anew (all pending), the
\* state comes from the state file if there is one, and with resume the
\* steps of completed_steps are marked completed
begin_run(d, resume) ==
    LET completed == IF d.state_file THEN d.completed_steps ELSE <<>>
        failed == IF d.state_file THEN d.failed_steps ELSE <<>>
        done == {completed[k] : k \in DOMAIN completed}
    IN [d EXCEPT
          !.pc = "loop",
          !.run = @ + 1,
          !.i = 1,
          !.last = 0,
          !.marked = FALSE,
          !.ran = FALSE,
          !.order = topological_order(d.depends_on),
          !.status = [s \in Steps |->
                         IF resume /\ s \in done THEN "completed" ELSE "pending"],
          !.completed_steps = completed,
          !.failed_steps = failed]

\* the body of the loop of run() for the step at position i of the order;
\* success is what the executor returns, paused the answer to a checkpoint
run_step(d, success, paused) ==
    LET step_id == d.order[d.i]
        unmet == \E dep \in d.depends_on[step_id] : d.status[dep] # "completed"
        \* the continue of line 626 continues the loop over depends_on
        executed == [d EXCEPT !.last = step_id, !.marked = unmet, !.ran = TRUE,
                              !.state_file = TRUE, !.i = @ + 1]
    IN IF d.status[step_id] = "completed"
       THEN [d EXCEPT !.last = step_id, !.marked = FALSE, !.ran = FALSE, !.i = @ + 1]
       ELSE IF success
       THEN [executed EXCEPT
                !.status[step_id] = "completed",
                !.completed_steps = Append(@, step_id),
                !.pc = IF paused THEN "returned" ELSE @]
       ELSE [executed EXCEPT
                !.status[step_id] = "failed",
                !.failed_steps = Append(@, step_id),
                !.pc = IF d.continue_on_fail[step_id] THEN @ ELSE "returned"]

\* the end of run(): the state file is removed when every step is completed
end_run(d) ==
    [d EXCEPT !.pc = "returned",
              !.last = 0, !.marked = FALSE, !.ran = FALSE,
              !.state_file = IF \A s \in Steps : d.status[s] = "completed"
                             THEN FALSE ELSE @]

DagBegin ==
    /\ dag.pc \in {"loaded", "returned"}
    /\ dag.run < MaxRuns
    /\ \E resume \in BOOLEAN : dag' = begin_run(dag, resume)
    /\ UNCHANGED DagRest

DagStep ==
    /\ dag.pc = "loop"
    /\ dag.i <= Len(dag.order)
    /\ \E success \in BOOLEAN : \E paused \in BOOLEAN :
          dag' = run_step(dag, success, paused)
    /\ UNCHANGED DagRest

DagEnd ==
    /\ dag.pc = "loop"
    /\ dag.i > Len(dag.order)
    /\ dag' = end_run(dag)
    /\ UNCHANGED DagRest

\* a workflow whose depends_on has no cycle
Acyclic(depends_on) ==
    \E rank \in [Steps -> Steps] :
        \A s \in Steps : \A dep \in depends_on[s] : rank[dep] < rank[s]

InitDag ==
    /\ impl = "addons"
    /\ tx = <<>>
    /\ seq = 1
    /\ sale = [s \in SaleIds |-> NewSale(s)]
    /\ replay = NoReplay
    /\ gmp = NoGmp
    /\ move = PostedMoves
    /\ percentage = 1
    /\ rule_active = FALSE
    /\ docs = UnverifiedDocs
    /\ load_state = "draft"
    /\ load_bol = BothAttached
    /\ ops = 0
    /\ result = [op |-> "init", ids |-> {}, keys |-> {}, manager |-> FALSE, err |-> ""]
    /\ sess = [s \in Sessions |-> IdleSess]
    /\ \E depends_on \in [Steps -> SUBSET Steps] :
       \E continue_on_fail \in [Steps -> BOOLEAN] :
          /\ Acyclic(depends_on)
          /\ dag = [pc |-> "loaded", run |-> 0, i |-> 1, last |-> 0,
                    marked |-> FALSE, ran |-> FALSE, order |-> <<>>,
                    status |-> [s \in Steps |-> "pending"],
                    depends_on |-> depends_on,
                    continue_on_fail |-> continue_on_fail,
                    completed_steps |-> <<>>, failed_steps |-> <<>>,
                    state_file |-> FALSE]

NextDag ==
    \/ DagBegin
    \/ DagStep
    \/ DagEnd

SpecDag == InitDag /\ [][NextDag]_vars

\* ------------------------------------------------------------------- claims
Closed(t) == t \in DOMAIN tx /\ tx[t].state = "closed"

\* C1: every closed transaction has gross_margin >= 0, in every reachable
\* state, also after later changes to the amounts of its linked documents.
C1_ClosedMarginNonNegative ==
    \A t \in DOMAIN tx : tx[t].state = "closed" => tx[t].gross_margin >= 0

StateRank(st) == CASE st = "draft" -> 0 [] st = "active" -> 1 [] st = "closed" -> 2

\* C2: the state of a transaction never moves backward, and a closed
\* transaction stays closed under every operation.
C2_StateNeverBackward ==
    [][\A t \in DOMAIN tx :
          StateRank(tx[t].state) <= StateRank(tx'[t].state)]_vars

\* The close preconditions, on the state in which a transaction is closed.
ClosePreconditions(t, manager) ==
    /\ tx'[t].customer_invoice_id # 0
    /\ move'[tx'[t].customer_invoice_id].state = "posted"
    /\ \A b \in tx'[t].vendor_bill_ids : move'[b].state = "posted"
    /\ tx'[t].load_id # 0 => load_state' = "closed"
    /\ is_compliant(rule_active', docs', t)
    /\ manager
    /\ tx'[t].gross_margin >= 0

\* C3: a transaction becomes closed only through action_close, and then
\* every close precondition holds; create, write and action_activate never
\* produce a closed transaction.
C3_ClosedOnlyByClose ==
    [][\A t \in DOMAIN tx' :
          (tx'[t].state = "closed" /\ ~Closed(t))
              => /\ result'.op = "action_close"
                 /\ result'.ids = {t}
                 /\ ClosePreconditions(t, result'.manager)]_vars

\* C4: every direct write() whose vals contain state is rejected with an
\* error and leaves every transaction unchanged.
C4_StateWriteRejected ==
    [][(result'.op = "write" /\ "state" \in result'.keys)
          => (result'.err # "" /\ tx' = tx)]_vars

\* C5: no bill is in vendor_bill_ids of two transactions, none is in
\* freight_bill_ids of two transactions.
C5_BillsDisjoint ==
    \A a, b \in DOMAIN tx :
        a # b => /\ tx[a].vendor_bill_ids \cap tx[b].vendor_bill_ids = {}
                 /\ tx[a].freight_bill_ids \cap tx[b].freight_bill_ids = {}

\* C6: no customer invoice is the customer_invoice_id of two transactions.
C6_InvoiceUnique ==
    \A a, b \in DOMAIN tx :
        (a # b /\ tx[a].customer_invoice_id # 0)
            => tx[a].customer_invoice_id # tx[b].customer_invoice_id

\* C9: action_close on a closed transaction raises an error and changes
\* neither its state nor its frozen flag nor its frozen amount.
C9_SecondCloseIsError ==
    [][\A t \in DOMAIN tx :
          (result'.op = "action_close" /\ result'.ids = {t} /\ Closed(t))
              => /\ result'.err # ""
                 /\ tx'[t].state = tx[t].state
                 /\ tx'[t].commission_locked = tx[t].commission_locked
                 /\ tx'[t].commission_locked_amount = tx[t].commission_locked_amount]_vars

\* C10: once the commission is frozen, commission_amount and the frozen
\* amount keep their value under every later operation.
C10_FrozenCommissionStable ==
    [][\A t \in DOMAIN tx :
          tx[t].commission_locked
              => /\ tx'[t].commission_amount = tx[t].commission_amount
                 /\ tx'[t].commission_locked_amount = tx[t].commission_locked_amount]_vars

Succeeded(s) == sess[s].pc = "done" /\ sess[s].err = ""
Failed(s) == sess[s].pc = "done" /\ sess[s].err # ""

\* Two sessions attach the same bill, in the same slot, to two transactions.
SameBillRace(s1, s2) ==
    /\ s1 # s2
    /\ sess[s1].kind = "attach" /\ sess[s2].kind = "attach"
    /\ sess[s1].slot = sess[s2].slot /\ sess[s1].bill = sess[s2].bill
    /\ sess[s1].id # sess[s2].id

\* C7: when two sessions attach the same bill to two different transactions,
\* the bill is never linked to both, and once both requests are over exactly
\* one of them has succeeded.
C7_AttachRaceOneWinner ==
    \A s1, s2 \in Sessions :
        SameBillRace(s1, s2)
            => /\ ~(/\ sess[s1].bill \in SlotSet(tx[sess[s1].id], sess[s1].slot)
                    /\ sess[s1].bill \in SlotSet(tx[sess[s2].id], sess[s1].slot))
               /\ (sess[s1].pc = "done" /\ sess[s2].pc = "done")
                     => ((Succeeded(s1) /\ Failed(s2)) \/ (Failed(s1) /\ Succeeded(s2)))

\* The transaction meets every close precondition (a manager is calling).
Closeable(t) ==
    /\ tx[t].customer_invoice_id # 0
    /\ move[tx[t].customer_invoice_id].state = "posted"
    /\ \A b \in tx[t].vendor_bill_ids : move[b].state = "posted"
    /\ tx[t].load_id # 0 => load_state = "closed"
    /\ is_compliant(rule_active, docs, t)
    /\ tx[t].gross_margin >= 0

\* C8: of two concurrent action_close requests on the same transaction,
\* which meets every close precondition, exactly one succeeds and the other
\* ends with an error (addons action_close, the one that takes the row lock).
C8_CloseRaceOneWinner ==
    \A s1, s2 \in Sessions :
        (/\ impl = "addons"
         /\ s1 # s2
         /\ sess[s1].kind = "close" /\ sess[s2].kind = "close"
         /\ sess[s1].id = sess[s2].id
         /\ sess[s1].manager /\ sess[s2].manager
         /\ Closeable(sess[s1].id)
         /\ sess[s1].pc = "done" /\ sess[s2].pc = "done")
            => ((Succeeded(s1) /\ Failed(s2)) \/ (Failed(s1) /\ Succeeded(s2)))

\* C11: a transaction whose commission is frozen has commission_amount equal
\* to its frozen amount, whatever the rule, its percentage, the override and
\* the gross margin are.
C11_FrozenAmountShown ==
    \A t \in DOMAIN tx :
        tx[t].commission_locked
            => tx[t].commission_amount = tx[t].commission_locked_amount

\* A frozen transaction whose rule would now give another amount.
C11_Witness ==
    \E t \in DOMAIN tx :
        /\ tx[t].commission_locked
        /\ tx[t].state = "closed"
        /\ tx[t].commission_rule_id # 0
        /\ tx[t].commission_locked_amount # 0
        /\ tx[t].commission_locked_amount # Times(tx[t].gross_margin, percentage)

\* The value action_close copies into the frozen amount: addons computes it
\* with the commission service, Plasticos reads commission_amount.
ValueToFreeze(im, rec, pct) ==
    IF im = "Plasticos" THEN rec.commission_amount ELSE compute_commission(rec, pct)

\* C12: a successful close of a transaction not yet frozen freezes the
\* commission resolved just before, and shows it as commission_amount; and
\* setting the frozen flag does not change the value that gets frozen.
C12_FreezeKeepsResolved ==
    [][\A t \in DOMAIN tx :
          /\ (/\ result'.op = "action_close" /\ result'.ids = {t}
              /\ result'.err = "" /\ ~tx[t].commission_locked)
                => /\ tx'[t].commission_locked
                   /\ tx'[t].commission_locked_amount
                          = ValueToFreeze(impl, tx[t], percentage)
                   /\ tx'[t].commission_amount = tx'[t].commission_locked_amount
          /\ (/\ result'.op = "write" /\ t \in result'.ids /\ result'.err = ""
              /\ ~tx[t].commission_locked /\ tx'[t].commission_locked)
                => ValueToFreeze(impl, tx'[t], percentage)
                       = ValueToFreeze(impl, tx[t], percentage)]_vars

\* C13: action_close is atomic with respect to an attach on the same
\* transaction: whatever the interleaving, a closed transaction has
\* gross_margin >= 0, its financial fields are those of its link set, and its
\* frozen commission is the one computed from that link set.
C13_CloseAtomicWithAttach ==
    \A t \in DOMAIN tx :
        tx[t].state = "closed"
            => /\ tx[t].gross_margin >= 0
               /\ tx[t].gross_margin
                      = compute_financials_addons(tx[t], move).gross_margin
               /\ tx[t].commission_locked
               /\ tx[t].commission_locked_amount = compute_commission(tx[t], percentage)

\* A close and an attach raced on one transaction: the close committed and
\* the attach, which had passed its checks, met the changed row.
C13_Witness ==
    \E s1, s2 \in Sessions :
        /\ sess[s1].kind = "close" /\ sess[s2].kind = "attach"
        /\ sess[s1].id = sess[s2].id
        /\ Succeeded(s1)
        /\ tx[sess[s1].id].state = "closed"
        /\ tx[sess[s1].id].vendor_bill_ids # {}
        /\ sess[s2].pc = "done" /\ sess[s2].err = SerializationFailure

FailedChecks(t, manager) ==
    {m \in {"Customer invoice must be posted.",
            "Vendor bills must be posted.",
            "All vendor bills must be posted.",
            "Logistics must be closed.",
            "Required documents missing.",
            "Only Plasticos Managers can close transactions.",
            "Cannot close transaction with negative gross margin."} :
        \/ /\ m = "Customer invoice must be posted."
           /\ \/ tx[t].customer_invoice_id = 0
              \/ move[tx[t].customer_invoice_id].state # "posted"
        \/ /\ m = (IF impl = "Plasticos" THEN "All vendor bills must be posted."
                   ELSE "Vendor bills must be posted.")
           /\ \E b \in tx[t].vendor_bill_ids : move[b].state # "posted"
        \/ /\ m = "Logistics must be closed."
           /\ tx[t].load_id # 0 /\ load_state # "closed"
        \/ /\ m = "Required documents missing."
           /\ ~is_compliant(rule_active, docs, t)
        \/ /\ m = "Only Plasticos Managers can close transactions."
           /\ ~manager
        \/ /\ m = "Cannot close transaction with negative gross margin."
           /\ tx[t].gross_margin < 0}

\* The preconditions an error names: a UserError carries one message.
NamedChecks(err) == IF err = "" THEN {} ELSE {err}

\* C15: the error of a failed action_close names every failed precondition:
\* exactly the set of checks that fail.
C15_CloseNamesEveryFailure ==
    [][\A t \in DOMAIN tx :
          (/\ result'.op = "action_close" /\ result'.ids = {t}
           /\ FailedChecks(t, result'.manager) # {})
              => NamedChecks(result'.err) = FailedChecks(t, result'.manager)]_vars

\* The fields a closed transaction must keep: every link, the commission
\* configuration and the reference.
ClosedProtected ==
    {"sale_order_id", "purchase_order_ids", "load_id", "customer_invoice_id",
     "vendor_bill_ids", "freight_bill_ids", "commission_rule_id",
     "commission_override_flat", "commission_locked", "commission_locked_amount",
     "name"}

\* C16: on a closed transaction every write that touches a link, the
\* commission configuration or the reference is rejected with an error and
\* leaves the record unchanged.
C16_ClosedIsImmutable ==
    [][\A t \in DOMAIN tx :
          (/\ result'.op = "write" /\ t \in result'.ids
           /\ Closed(t)
           /\ result'.keys \cap ClosedProtected # {})
              => (result'.err # "" /\ tx'[t] = tx[t])]_vars

\* C17: the financial outcome of a closed transaction (revenue_total,
\* cost_total, gross_margin, commission_amount, net_margin) never changes
\* again, whatever happens to its documents, to the rule or to the record.
C17_ClosedOutcomeNeverDrifts ==
    [][\A t \in DOMAIN tx :
          Closed(t)
              => /\ tx'[t].revenue_total = tx[t].revenue_total
                 /\ tx'[t].cost_total = tx[t].cost_total
                 /\ tx'[t].gross_margin = tx[t].gross_margin
                 /\ tx'[t].commission_amount = tx[t].commission_amount
                 /\ tx'[t].net_margin = tx[t].net_margin]_vars

HasAccountingLink(t) ==
    \/ tx[t].customer_invoice_id # 0
    \/ tx[t].vendor_bill_ids # {}
    \/ tx[t].freight_bill_ids # {}

\* C18: unlink of a transaction that is closed or holds a customer invoice,
\* vendor bill or freight bill is rejected and the transaction is kept,
\* whatever its state.
C18_LinkedOrClosedNotDeleted ==
    [][(/\ result'.op = "unlink"
        /\ \E t \in result'.ids : Closed(t) \/ HasAccountingLink(t))
          => (result'.err # "" /\ tx' = tx)]_vars

\* C19: unlink of an active transaction is rejected, also when it holds no
\* accounting link: only a draft transaction without links can be deleted.
C19_OnlyDraftDeletable ==
    [][(/\ result'.op = "unlink"
        /\ \E t \in result'.ids : tx[t].state = "active")
          => (result'.err # "" /\ tx' = tx)]_vars

\* C20: the customer invoice link is write-once: once a transaction has a
\* customer invoice, no operation replaces or clears it, in any state; an
\* attempt to do so by write() is rejected.
C20_InvoiceLinkWriteOnce ==
    [][\A t \in DOMAIN tx :
          tx[t].customer_invoice_id # 0
              => /\ tx'[t].customer_invoice_id = tx[t].customer_invoice_id
                 /\ (/\ result'.op = "write" /\ t \in result'.ids
                     /\ "customer_invoice_id" \in result'.keys
                     /\ result'.err = "")
                       => tx'[t] = tx[t]]_vars

\* An active transaction with an invoice on which a write of another
\* customer_invoice_id (or of none) has just been refused.
C20_Witness ==
    \E t \in DOMAIN tx :
        /\ impl = "addons"
        /\ result.op = "write" /\ result.ids = {t}
        /\ result.keys = {"customer_invoice_id"}
        /\ result.err = "Customer invoice cannot be reassigned once set."
        /\ tx[t].state = "active"
        /\ tx[t].customer_invoice_id # 0

\* C21: the reference of a transaction is given once, at creation: it is
\* never 'New', it differs from the reference of every other transaction,
\* and no later operation changes it, whether the transaction was created
\* without a name, with a name of the caller, or by a sale confirmation.
C21_ReferenceUniqueImmutable ==
    [][/\ \A t \in DOMAIN tx : tx'[t].name = tx[t].name
       /\ \A t \in DOMAIN tx' : tx'[t].name # "New"
       /\ \A a, b \in DOMAIN tx' : a # b => tx'[a].name # tx'[b].name]_vars

\* C22: every transaction that create() returns is in state draft and its
\* commission is not frozen, whatever vals the caller passes.
C22_CreatedIsDraftUnfrozen ==
    [][(result'.op = "create" /\ result'.err = "")
          => \A t \in result'.ids :
                /\ tx'[t].state = "draft"
                /\ ~tx'[t].commission_locked
                /\ tx'[t].commission_locked_amount = 0]_vars

\* C23: the stored financial fields always agree with the links the
\* transaction has now: revenue_total is the amount of the linked customer
\* invoice (0 without one), cost_total the sum of the amounts of the linked
\* vendor and freight bills, gross_margin their difference.
C23_StoredFieldsFollowLinks ==
    \A t \in DOMAIN tx :
        /\ tx[t].revenue_total
               = (IF tx[t].customer_invoice_id = 0 THEN 0
                  ELSE move[tx[t].customer_invoice_id].amount_total)
        /\ tx[t].cost_total
               = SumAmounts(tx[t].vendor_bill_ids, move)
                     + SumAmounts(tx[t].freight_bill_ids, move)
        /\ tx[t].gross_margin = tx[t].revenue_total - tx[t].cost_total

\* A write has just linked a bill to a transaction that holds an invoice and
\* bills in both slots, and the stored totals are those of the three documents.
C23_Witness ==
    \E t \in DOMAIN tx :
        /\ result.op = "write" /\ t \in result.ids /\ result.err = ""
        /\ result.keys \cap {"vendor_bill_ids", "freight_bill_ids"} # {}
        /\ tx[t].customer_invoice_id # 0
        /\ tx[t].vendor_bill_ids # {}
        /\ tx[t].freight_bill_ids # {}
        /\ tx[t].revenue_total = 1000
        /\ tx[t].cost_total = 1200
        /\ tx[t].gross_margin = -200

\* C24: in every state net_margin = gross_margin - commission_amount; with
\* an invoice of 1000, a vendor bill of 600 and a rule of percentage 0.1 the
\* commission is 40 and the net margin 360.
C24_NetMarginIsGrossLessCommission ==
    \A t \in DOMAIN tx :
        /\ tx[t].net_margin = tx[t].gross_margin - tx[t].commission_amount
        /\ (/\ tx[t].revenue_total = 1000 /\ tx[t].cost_total = 600
            /\ tx[t].commission_rule_id # 0 /\ percentage = 1
            /\ ~tx[t].commission_locked /\ tx[t].commission_override_flat = 0)
              => (tx[t].commission_amount = 40 /\ tx[t].net_margin = 360)

\* An override was set on the record: the only override ever written in the
\* model is not zero, so a record that reads 0 never had one set.
OverrideWasSet(rec) == rec.commission_override_flat # 0

\* C25: the commission of a transaction that is not frozen is the flat
\* override when one is set, otherwise gross_margin * rule.percentage when a
\* rule is linked, otherwise 0; a transaction with a rule on which no
\* override was ever set gets the rule-based amount.
C25_CommissionResolution ==
    \A t \in DOMAIN tx :
        ~tx[t].commission_locked
            => tx[t].commission_amount
                   = (IF OverrideWasSet(tx[t]) THEN tx[t].commission_override_flat
                      ELSE IF tx[t].commission_rule_id # 0
                           THEN Times(tx[t].gross_margin, percentage)
                      ELSE 0)

\* The replay of C26: an authorized actor, no document rule outstanding, no
\* commission rule, a posted invoice of 1000 and a posted vendor bill of 600.
CleanReplay ==
    /\ replay.run \in {1, 2}
    /\ replay.manager
    /\ replay.rule = 0
    /\ is_compliant(rule_active, docs, ReplayTx)
    /\ move[ReplayInvoice] = [amount_total |-> 1000, state |-> "posted"]
    /\ move[ReplayBill] = [amount_total |-> 600, state |-> "posted"]

\* C26: create, attach posted invoice (1000), attach posted vendor bill
\* (600), activate, close, by an authorized actor with no compliance rule
\* outstanding and no commission rule: every step succeeds and the result is
\* closed with revenue 1000, cost 600, gross margin 400, commission 0 and
\* net margin 400.
C26_CleanReplayCloses ==
    CleanReplay
        => /\ replay.pc # "failed"
           /\ replay.pc = "built"
                => /\ tx[ReplayTx].state = "closed"
                   /\ tx[ReplayTx].revenue_total = 1000
                   /\ tx[ReplayTx].cost_total = 600
                   /\ tx[ReplayTx].gross_margin = 400
                   /\ tx[ReplayTx].commission_amount = 0
                   /\ tx[ReplayTx].net_margin = 400

C28_CloseNeedsDocuments ==
    [][\A t \in DOMAIN tx :
          (/\ result'.op = "action_close" /\ result'.ids = {t}
           /\ rule_active
           /\ ~(docs[t].verified \/ docs[t].override))
              => (result'.err # "" /\ tx' = tx)]_vars

\* A manager's close of an active transaction that meets every other
\* precondition has just been refused for its missing document.
C28_Witness ==
    \E t \in DOMAIN tx :
        /\ result.op = "action_close" /\ result.ids = {t} /\ result.manager
        /\ result.err = "Required documents missing."
        /\ tx[t].state = "active"
        /\ tx[t].customer_invoice_id # 0
        /\ move[tx[t].customer_invoice_id].state = "posted"
        /\ \A b \in tx[t].vendor_bill_ids : move[b].state = "posted"
        /\ tx[t].load_id = 0
        /\ tx[t].gross_margin >= 0
        /\ rule_active /\ ~docs[t].verified /\ ~docs[t].override

\* C29: a document comes to count as overridden only through
\* action_override by a documents manager, and then it carries a reason that
\* is not empty; an override without a reason, by another user, or written
\* straight to the field never makes the document count.
C29_OverrideNeedsManagerAndReason ==
    [][\A t \in TxIds :
          (docs'[t].override /\ docs'[t] # docs[t])
              => /\ result'.op = "action_override"
                 /\ result'.manager
                 /\ docs'[t].override_reason # ""]_vars

\* C30: action_close called by a user without the manager role raises an
\* error and leaves the state and the commission fields of the transaction
\* as they were, also when every other close precondition holds.
C30_OnlyManagerCloses ==
    [][\A t \in DOMAIN tx :
          (result'.op = "action_close" /\ result'.ids = {t} /\ ~result'.manager)
              => /\ result'.err # ""
                 /\ tx'[t].state = tx[t].state
                 /\ tx'[t].commission_amount = tx[t].commission_amount
                 /\ tx'[t].commission_locked = tx[t].commission_locked
                 /\ tx'[t].commission_locked_amount = tx[t].commission_locked_amount]_vars

\* A transaction with a commission rule and a commission of 40 meets every
\* other precondition; the close by a user who is no manager was refused for
\* the missing role.
C30_Witness ==
    \E t \in DOMAIN tx :
        /\ result.op = "action_close" /\ result.ids = {t} /\ ~result.manager
        /\ result.err = "Only Plasticos Managers can close transactions."
        /\ Closeable(t)
        /\ tx[t].commission_rule_id # 0
        /\ tx[t].commission_amount = 40
        /\ tx[t].state # "closed"

\* run_monthly_audit: the records its search returns
audit_violations(txs) ==
    {t \in DOMAIN txs :
        /\ txs[t].state = "closed"
        /\ (txs[t].gross_margin < 0 \/ txs[t].commission_locked = FALSE)}

\* C31: every closed transaction has commission_locked set, and the
\* violation query of the monthly audit matches no transaction, also after
\* later writes to a closed transaction.
C31_AuditFindsNothing ==
    /\ \A t \in DOMAIN tx : tx[t].state = "closed" => tx[t].commission_locked
    /\ audit_violations(tx) = {}

\* C32: the commission is frozen by close() only: a transaction whose frozen
\* flag is set is closed, and no create or write sets the flag or the frozen
\* amount of a transaction that stays draft or active.
C32_FrozenOnlyByClose ==
    [][/\ \A t \in DOMAIN tx' : tx'[t].commission_locked => tx'[t].state = "closed"
       /\ result'.op \in {"create", "write"}
            => \A t \in result'.ids :
                 (t \in DOMAIN tx' /\ tx'[t].state # "closed")
                    => /\ ~tx'[t].commission_locked
                       /\ tx'[t].commission_locked_amount
                            = (IF t \in DOMAIN tx
                               THEN tx[t].commission_locked_amount ELSE 0)]_vars

\* C33: while a transaction is closed, a button_cancel, an unlink or the
\* posting of a credit note on a move it links as customer invoice, vendor
\* bill or freight bill is rejected.
C33_ClosedKeepsItsMoves ==
    [][\A m \in MoveIds :
          (/\ result'.op \in {"button_cancel", "move_unlink", "action_post_refund"}
           /\ result'.ids = {m}
           /\ \E t \in DOMAIN tx :
                 /\ tx[t].state = "closed"
                 /\ \/ tx[t].customer_invoice_id = m
                    \/ m \in tx[t].vendor_bill_ids
                    \/ m \in tx[t].freight_bill_ids)
              => result'.err # ""]_vars

\* C34: a confirmation of a sale order that has no transaction creates
\* exactly one, which the order then links, which references the order and
\* is active; a confirmation of an order that has a transaction creates none
\* and changes the state of no transaction.
C34_ConfirmLinksOneActive ==
    [][\A s \in SaleIds :
          (result'.op = "action_confirm" /\ result'.ids = {s} /\ result'.err = "")
             => IF sale[s].transaction_id = 0
                THEN /\ Cardinality(DOMAIN tx' \ DOMAIN tx) = 1
                     /\ sale'[s].transaction_id \in DOMAIN tx' \ DOMAIN tx
                     /\ tx'[sale'[s].transaction_id].sale_order_id = s
                     /\ tx'[sale'[s].transaction_id].state = "active"
                ELSE /\ DOMAIN tx' = DOMAIN tx
                     /\ sale'[s].transaction_id = sale[s].transaction_id
                     /\ \A t \in DOMAIN tx : tx'[t].state = tx[t].state]_vars

\* a closed transaction's order, confirmed a second time
C34_Witness ==
    /\ result.op = "action_confirm" /\ result.err = ""
    /\ \E s \in result.ids :
          /\ sale[s].state = "sale"
          /\ sale[s].transaction_id \in DOMAIN tx
          /\ tx[sale[s].transaction_id].state = "closed"

\* C35: the stored compliance_status of a transaction is 'compliant' exactly
\* when the compliance service finds it compliant now, also after documents
\* were verified or overridden and rules added since it was created.
C35_StatusFollowsService ==
    impl = "addons"
        => \A t \in DOMAIN tx :
              tx[t].compliance_status = "compliant" <=> is_compliant(rule_active, docs, t)

\* C36: on a database that holds transactions named 'New', the 1.1.0
\* pre-migration ends without error, every such transaction then holds a
\* reference of its own that no transaction held before, none is named 'New'
\* any more, and the transactions that had a reference keep it.
C36_MigrationNamesTheUnnamed ==
    [][(result'.op = "migrate" /\ \E t \in DOMAIN tx : tx[t].name = "New")
          => /\ result'.err = ""
             /\ \A t \in DOMAIN tx' : tx'[t].name # "New"
             /\ \A t \in DOMAIN tx : tx[t].name # "New" => tx'[t].name = tx[t].name
             /\ \A t \in DOMAIN tx :
                   tx[t].name = "New"
                      => /\ \A u \in DOMAIN tx : tx[u].name # tx'[t].name
                         /\ \A u \in DOMAIN tx' : u # t => tx'[u].name # tx'[t].name]_vars

\* C37: a load that is dispatched, picked up or delivered is closed in the
\* end: _transition takes it to the state that follows and action_close,
\* with both BOL flags set, to closed.
C37_DispatchedLoadCloses ==
    (load_state \in {"dispatched", "picked_up", "delivered"}) ~> (load_state = "closed")

\* C38: every run of the GMP graph ends: the retry edge from validate to
\* implement is taken at most max_retries times, and the run reaches END,
\* coming from the end node or from the aborted node.
C38_GmpRunEnds ==
    /\ [](gmp.retries <= gmp.max_retries)
    /\ <>(gmp.node = "END" /\ gmp.last \in {"end", "aborted"})

\* C39: DAGRunner.run invokes the executor of a step only when every step it
\* depends on is completed; a step with a dependency that is not completed is
\* marked skipped, its executor is not invoked and the step does not enter
\* completed_steps.
C39_StepsWaitForDependencies ==
    [][(dag.pc = "loop" /\ dag'.last # 0)
          => LET s == dag'.last
                 unmet == \E dep \in dag.depends_on[s] : dag.status[dep] # "completed"
             IN /\ dag'.ran => s \in get_ready_steps(dag)
                /\ (unmet /\ dag.status[s] # "completed")
                      => /\ dag'.status[s] = "skipped"
                         /\ ~dag'.ran
                         /\ \A k \in DOMAIN dag'.completed_steps :
                               dag'.completed_steps[k] # s]_vars

====
